---- MODULE Spec2Model ----
(***************************************************************************)
(* Model of the minidump parser and memory reader of                       *)
(* src/minidump/src/minidump.cpp and src/minidump/include/minidump/        *)
(* minidump.hpp.                                                           *)
(*                                                                         *)
(* A file is a sequence of bytes.  parse() decodes it field by field from  *)
(* the byte offsets of the record layouts; the reader serves reads from    *)
(* the decoded snapshot with positioned reads on its own std::ifstream.    *)
(*                                                                         *)
(* uint64_t / size_t values are kept exactly, as four 16-bit limbs, least  *)
(* significant first (TLC's integers are 32 bits wide); their arithmetic   *)
(* wraps modulo 2^64 as the machine's does.  uint32_t / uint16_t fields    *)
(* are naturals; the enumerated files keep them below 2^31.                *)
(***************************************************************************)
EXTENDS Integers, Sequences, FiniteSets, TLC

----------------------------------------------------------------------------
(* Bounds of the enumerated inputs *)

\* read_memory lengths 0..MaxLen are tried (plus SIZE_MAX)
MaxLen == 8
\* the addresses LowAddr .. LowAddr+AddrSpan and 2^64-HighSpan .. 2^64-1 are tried
AddrSpan == 18
HighSpan == 13
\* the processor-architecture tags 0..MaxArchTag are tried (plus 0xFFFF)
MaxArchTag == 15

----------------------------------------------------------------------------
(* uint64_t arithmetic *)

LimbBase == 256 * 256

Min(a, b) == IF a < b THEN a ELSE b

\* the uint64_t with value n, for a natural n < 2^31
U64(n) == <<n % LimbBase, n \div LimbBase, 0, 0>>

Zero64 == <<0, 0, 0, 0>>

\* 2^64 - n, i.e. (uint64_t)(-n), for 0 < n <= 65536
U64Neg(n) == <<LimbBase - n, LimbBase - 1, LimbBase - 1, LimbBase - 1>>

\* x + y in uint64_t arithmetic: [sum, carry]; carry = 1 iff the mathematical
\* sum is at least 2^64
U64AddC(x, y) ==
    LET s1 == x[1] + y[1]
        s2 == x[2] + y[2] + (s1 \div LimbBase)
        s3 == x[3] + y[3] + (s2 \div LimbBase)
        s4 == x[4] + y[4] + (s3 \div LimbBase)
    IN  [sum |-> <<s1 % LimbBase, s2 % LimbBase, s3 % LimbBase, s4 % LimbBase>>,
         carry |-> s4 \div LimbBase]

U64Add(x, y) == U64AddC(x, y).sum

\* x - y in uint64_t arithmetic (wraps below zero)
U64Sub(x, y) ==
    LET d1 == x[1] - y[1]
        b1 == IF d1 < 0 THEN 1 ELSE 0
        d2 == x[2] - y[2] - b1
        b2 == IF d2 < 0 THEN 1 ELSE 0
        d3 == x[3] - y[3] - b2
        b3 == IF d3 < 0 THEN 1 ELSE 0
        d4 == x[4] - y[4] - b3
    IN  <<d1 % LimbBase, d2 % LimbBase, d3 % LimbBase, d4 % LimbBase>>

U64Lt(x, y) ==
    \/ x[4] < y[4]
    \/ x[4] = y[4] /\ x[3] < y[3]
    \/ x[4] = y[4] /\ x[3] = y[3] /\ x[2] < y[2]
    \/ x[4] = y[4] /\ x[3] = y[3] /\ x[2] = y[2] /\ x[1] < y[1]

U64Le(x, y) == x = y \/ U64Lt(x, y)

\* a uint64_t that fits a natural below 2^31
U64IsSmall(x) == x[3] = 0 /\ x[4] = 0 /\ x[2] < 128 * 256

U64ToNat(x) == x[1] + LimbBase * x[2]

----------------------------------------------------------------------------
(* Little-endian field access: what reinterpret_cast<char*>(&field) reads  *)
(* on the little-endian hosts the format is defined for.  b is a record    *)
(* image (a byte sequence), off a 0-based offset.                          *)

LE16(b, off) == b[off + 1] + 256 * b[off + 2]

LE32(b, off) == LE16(b, off) + LimbBase * LE16(b, off + 2)

LE64(b, off) == <<LE16(b, off), LE16(b, off + 2), LE16(b, off + 4), LE16(b, off + 6)>>

Enc16(n) == <<n % 256, (n \div 256) % 256>>

Enc32(n) == Enc16(n % LimbBase) \o Enc16(n \div LimbBase)

Enc64(x) == Enc16(x[1]) \o Enc16(x[2]) \o Enc16(x[3]) \o Enc16(x[4])

Zeros(n) == [i \in 1..n |-> 0]

\* the image of a zero-initialised object of n bytes after got was read into it
Pad(got, n) == got \o Zeros(n - Len(got))

----------------------------------------------------------------------------
(* std::ifstream over a file with contents bytes.                          *)
(* A stream is [pos, fail, eof]; pos is the get position.  FarPos stands   *)
(* for any offset past the end of every file of the model.                 *)

FarPos == 1024 * 1024

GoodStream == [pos |-> 0, fail |-> FALSE, eof |-> FALSE]

\* the streamoff a uint64_t file position converts to: negative from 2^63 on
ToStreamPos(x) ==
    IF U64IsSmall(x) THEN Min(U64ToNat(x), FarPos)
    ELSE IF x[4] >= 128 * 256 THEN -1
    ELSE FarPos

\* istream::tellg(): -1 when fail() is set
Tellg(s) == IF s.fail THEN -1 ELSE s.pos

\* istream::seekg(pos): clears eofbit, then does nothing when failbit is set;
\* a negative position fails; a position past end of file is accepted
Seekg(s, p) ==
    LET c == [s EXCEPT !.eof = FALSE]
    IN  IF c.fail THEN c
        ELSE IF p < 0 THEN [c EXCEPT !.fail = TRUE]
        ELSE [c EXCEPT !.pos = p]

\* istream::read(buf, n): [s, got]; nothing is read unless the stream is
\* good(); a short read sets eofbit and failbit
Read(s, n, bytes) ==
    IF s.fail \/ s.eof
    THEN [s |-> [s EXCEPT !.fail = TRUE], got |-> <<>>]
    ELSE LET avail == IF s.pos >= Len(bytes) THEN 0 ELSE Len(bytes) - s.pos
             k == Min(n, avail)
         IN  [s |-> [pos |-> s.pos + k, fail |-> k < n, eof |-> k < n],
              got |-> SubSeq(bytes, s.pos + 1, s.pos + k)]

\* ios::clear()
Clear(s) == [s EXCEPT !.fail = FALSE, !.eof = FALSE]

----------------------------------------------------------------------------
(* Record layouts (minidump.hpp): sizes and field offsets as the compiler  *)
(* lays the structs out (natural alignment, no packing pragma).            *)

expected_signature == 1347241037        \* 0x504D444D, 'MDMP'

SizeofHeader == 32
SizeofDirectory == 12
SizeofThreadInfo == 40
ModuleReadSize == 108
SizeofSystemInfo == 48
SizeofExceptionInfo == 168
SizeofMiscInfo == 44
SizeofMemoryInfoEntry == 48
SizeofHandleHeader == 16
HandleReadSize == 32
SanityCeiling == 10000
NameLengthLimit == 2048

thread_list_stream == 3
module_list_stream == 4
exception_stream == 6
system_info_stream == 7
memory64_list_stream == 9
handle_data_stream == 12
misc_info_stream == 15
memory_info_list_stream == 16

arch_ia64 == 6
arch_amd64 == 9
arch_arm64 == 12
arch_aarch64 == 15
arch_unknown == 65535

DecodeHeader(img) ==
    [signature |-> LE32(img, 0), version |-> LE16(img, 4),
     implementation_version |-> LE16(img, 6),
     number_of_streams |-> LE32(img, 8),
     stream_directory_rva |-> LE32(img, 12),
     checksum |-> LE32(img, 16), time_date_stamp |-> LE32(img, 20),
     flags |-> LE64(img, 24)]

\* is_valid without the stream-count test
is_valid_signature_only(h) == h.signature = expected_signature

\* minidump_header::is_valid
is_valid(h) == h.signature = expected_signature /\ h.number_of_streams > 0

DecodeDirectory(img) ==
    [stream_type |-> LE32(img, 0), data_size |-> LE32(img, 4), rva |-> LE32(img, 8)]

DecodeThread(img) ==
    [thread_id |-> LE32(img, 0), suspend_count |-> LE32(img, 4),
     priority_class |-> LE32(img, 8), priority |-> LE32(img, 12),
     teb |-> LE64(img, 16), stack_start_rva |-> LE32(img, 24),
     stack_size |-> LE32(img, 28), context_rva |-> LE32(img, 32),
     context_size |-> LE32(img, 36)]

\* the fields of module_info inside the 108 bytes read; bytes 24..107 are the
\* start of version_info, which nothing reads back
\* a module decoder that takes checksum and time stamp from each other's offset
DecodeModuleSwapped(img, name) ==
    [base_of_image |-> LE64(img, 0), size_of_image |-> LE32(img, 8),
     checksum |-> LE32(img, 16), time_date_stamp |-> LE32(img, 12),
     module_name_rva |-> LE32(img, 20), module_name |-> name]

DecodeModule(img, name) ==
    [base_of_image |-> LE64(img, 0), size_of_image |-> LE32(img, 8),
     checksum |-> LE32(img, 12), time_date_stamp |-> LE32(img, 16),
     module_name_rva |-> LE32(img, 20), module_name |-> name]

DecodeSystemInfo(img) ==
    [present |-> TRUE,
     processor_architecture |-> LE16(img, 0), processor_level |-> LE16(img, 2),
     processor_revision |-> LE16(img, 4), number_of_processors |-> img[7],
     product_type |-> img[8], major_version |-> LE32(img, 8),
     minor_version |-> LE32(img, 12), build_number |-> LE32(img, 16),
     platform_id |-> LE32(img, 20)]

NoSystemInfo ==
    [present |-> FALSE,
     processor_architecture |-> 0, processor_level |-> 0,
     processor_revision |-> 0, number_of_processors |-> 0,
     product_type |-> 0, major_version |-> 0,
     minor_version |-> 0, build_number |-> 0, platform_id |-> 0]

DecodeExceptionInfo(img) ==
    [present |-> TRUE, thread_id |-> LE32(img, 0),
     exception_code |-> LE32(img, 8), exception_flags |-> LE32(img, 12),
     exception_record |-> LE64(img, 16), exception_address |-> LE64(img, 24),
     number_parameters |-> LE32(img, 32),
     context_rva |-> LE32(img, 160), context_size |-> LE32(img, 164)]

NoExceptionInfo ==
    [present |-> FALSE, thread_id |-> 0, exception_code |-> 0,
     exception_flags |-> 0, exception_record |-> Zero64,
     exception_address |-> Zero64, number_parameters |-> 0,
     context_rva |-> 0, context_size |-> 0]

DecodeMiscInfo(img) ==
    [present |-> TRUE, size_of_info |-> LE32(img, 0), flags1 |-> LE32(img, 4),
     process_id |-> LE32(img, 8), process_create_time |-> LE32(img, 12),
     process_user_time |-> LE32(img, 16), process_kernel_time |-> LE32(img, 20),
     processor_max_mhz |-> LE32(img, 24)]

NoMiscInfo ==
    [present |-> FALSE, size_of_info |-> 0, flags1 |-> 0, process_id |-> 0,
     process_create_time |-> 0, process_user_time |-> 0,
     process_kernel_time |-> 0, processor_max_mhz |-> 0]

\* memory_region(const memory_info_entry&)
DecodeMemoryRegion(img) ==
    [base_address |-> LE64(img, 0), allocation_base |-> LE64(img, 8),
     allocation_protect |-> LE32(img, 16), region_size |-> LE64(img, 24),
     state |-> LE32(img, 32), protect |-> LE32(img, 36), type |-> LE32(img, 40)]

DecodeHandle(img, tname, oname) ==
    [handle |-> LE64(img, 0), type_name_rva |-> LE32(img, 8),
     object_name_rva |-> LE32(img, 12), attributes |-> LE32(img, 16),
     granted_access |-> LE32(img, 20), handle_count |-> LE32(img, 24),
     pointer_count |-> LE32(img, 28), type_name |-> tname, object_name |-> oname]

\* memory_segment(start_va, segment_size, start_fa)
memory_segment(start_va, segment_size, start_fa) ==
    [start_virtual_address |-> start_va, size |-> segment_size,
     start_file_address |-> start_fa]

\* std::vector::resize(n): keeps the first n elements, appends value-initialised ones
Resize(v, n, zero) == [i \in 1..n |-> IF i <= Len(v) THEN v[i] ELSE zero]

\* file.read(&object, n) into a zero-initialised object: [s, img, ok]
ReadStruct(s, n, bytes) ==
    LET r == Read(s, n, bytes)
    IN  [s |-> r.s, img |-> Pad(r.got, n), ok |-> ~r.s.fail]

----------------------------------------------------------------------------
(* utils::read_utf16_string: keeps the UTF-16 code units 1..127 *)

\* the test of the loop body on one code unit
IsKeptChar(utf16_char) == utf16_char < 128 /\ utf16_char # 0

\* the loop over i = 0, 2, ... < length appends the code unit at i when
\* i + 1 < length and the unit passes the test
read_utf16_string(buffer, length) ==
    IF length = 0 THEN <<>>
    ELSE SelectSeq([k \in 1..(length \div 2) |-> LE16(buffer, 2 * (k - 1))], IsKeptChar)

\* the name indirection without the upper limit on the length
NameReadUnlimited(rl, rn, length, current_pos) ==
    LET takes == rl.ok /\ length > 0
        named == takes /\ ~rn.s.fail
    IN  [s |-> Seekg(IF takes THEN rn.s ELSE rl.s, current_pos),
         name |-> IF named THEN read_utf16_string(rn.got, length) ELSE <<>>,
         set |-> named]

\* The name indirection of the module and handle decoders: [s, name, set].
\* The stream comes back at current_pos only if no read failed in between:
\* seekg does not clear failbit.
NameRead(rl, rn, length, current_pos) ==
    LET takes == rl.ok /\ length > 0 /\ length < NameLengthLimit
        named == takes /\ ~rn.s.fail
    IN  [s |-> Seekg(IF takes THEN rn.s ELSE rl.s, current_pos),
         name |-> IF named THEN read_utf16_string(rn.got, length) ELSE <<>>,
         set |-> named]

\* rl: the read of the uint32_t length; the name buffer is read only when
\* that read succeeded and 0 < length < 2048
ReadNameOfLength(rl, length, current_pos, bytes) ==
    NameRead(rl, Read(rl.s, length, bytes), length, current_pos)

ReadNameAt(rl, current_pos, bytes) ==
    ReadNameOfLength(rl, LE32(rl.img, 0), current_pos, bytes)

ReadName(s, name_rva, bytes) ==
    IF name_rva = 0 THEN [s |-> s, name |-> <<>>, set |-> FALSE]
    ELSE ReadNameAt(ReadStruct(Seekg(s, name_rva), 4, bytes), Tellg(s), bytes)

----------------------------------------------------------------------------
(* The typed stream decoders.  Each takes the minidump_file md under       *)
(* construction, the parse stream s, the directory entry dir and the file  *)
(* contents, and yields [md, s, ok] with ok the decoder's return value.    *)

ZeroThread == DecodeThread(Zeros(SizeofThreadInfo))

ZeroModule == DecodeModule(Zeros(ModuleReadSize), <<>>)

RECURSIVE read_threads(_, _, _, _, _)
read_threads(threads, s, i, n, bytes) ==
    IF i >= n THEN [v |-> threads, s |-> s, ok |-> TRUE]
    ELSE LET r == ReadStruct(s, SizeofThreadInfo, bytes)
             v == [threads EXCEPT ![i + 1] = DecodeThread(r.img)]
         IN  IF ~r.ok THEN [v |-> v, s |-> r.s, ok |-> FALSE]
             ELSE read_threads(v, r.s, i + 1, n, bytes)

parse_thread_list_stream(md, s, dir, bytes) ==
    LET s1 == Seekg(s, dir.rva)
        rc == ReadStruct(s1, 4, bytes)
        number_of_threads == LE32(rc.img, 0)
        rt == read_threads(Resize(md.threads_, number_of_threads, ZeroThread),
                           rc.s, 0, number_of_threads, bytes)
    IN  IF ~rc.ok THEN [md |-> md, s |-> rc.s, ok |-> FALSE]
        ELSE [md |-> [md EXCEPT !.threads_ = rt.v], s |-> rt.s, ok |-> rt.ok]

RECURSIVE read_modules(_, _, _, _, _)

\* the body of the loop: r is the read of modules_[i], rn that of its name
read_module(modules, r, rn, i, n, bytes) ==
    LET old == modules[i + 1].module_name
        m == DecodeModule(r.img, old)
        named == [m EXCEPT !.module_name = IF rn.set THEN rn.name ELSE old]
    IN  IF ~r.ok
        THEN [v |-> [modules EXCEPT ![i + 1] = m], s |-> r.s, ok |-> FALSE]
        ELSE read_modules([modules EXCEPT ![i + 1] = named], rn.s, i + 1, n, bytes)

read_module_at(modules, r, i, n, bytes) ==
    read_module(modules, r,
                ReadName(r.s, DecodeModule(r.img, <<>>).module_name_rva, bytes),
                i, n, bytes)

read_modules(modules, s, i, n, bytes) ==
    IF i >= n THEN [v |-> modules, s |-> s, ok |-> TRUE]
    ELSE read_module_at(modules, ReadStruct(s, ModuleReadSize, bytes), i, n, bytes)

parse_module_list_stream(md, s, dir, bytes) ==
    LET s1 == Seekg(s, dir.rva)
        rc == ReadStruct(s1, 4, bytes)
        number_of_modules == LE32(rc.img, 0)
        rm == read_modules(Resize(md.modules_, number_of_modules, ZeroModule),
                           rc.s, 0, number_of_modules, bytes)
    IN  IF ~rc.ok THEN [md |-> md, s |-> rc.s, ok |-> FALSE]
        ELSE [md |-> [md EXCEPT !.modules_ = rm.v], s |-> rm.s, ok |-> rm.ok]

\* the loop with every segment placed at the base offset
RECURSIVE read_memory_ranges_at_base(_, _, _, _, _, _)
read_memory_ranges_at_base(segments, s, i, number_of_memory_ranges, current_rva, bytes) ==
    IF ~(U64Lt(U64(i), number_of_memory_ranges) /\ i < SanityCeiling)
    THEN [v |-> segments, s |-> s]
    ELSE LET r1 == ReadStruct(s, 8, bytes)
             r2 == ReadStruct(r1.s, 8, bytes)
             start_va == LE64(r1.img, 0)
             size == LE64(r2.img, 0)
         IN  IF r2.s.fail THEN [v |-> segments, s |-> r2.s]
             ELSE IF size # Zero64
             THEN read_memory_ranges_at_base(
                      Append(segments, memory_segment(start_va, size, current_rva)),
                      r2.s, i + 1, number_of_memory_ranges, current_rva, bytes)
             ELSE read_memory_ranges_at_base(segments, r2.s, i + 1,
                                             number_of_memory_ranges, current_rva, bytes)

RECURSIVE read_memory_ranges(_, _, _, _, _, _)
read_memory_ranges(segments, s, i, number_of_memory_ranges, current_rva, bytes) ==
    IF ~(U64Lt(U64(i), number_of_memory_ranges) /\ i < SanityCeiling)
    THEN [v |-> segments, s |-> s]
    ELSE LET r1 == ReadStruct(s, 8, bytes)
             r2 == ReadStruct(r1.s, 8, bytes)
             start_va == LE64(r1.img, 0)
             size == LE64(r2.img, 0)
         IN  IF r2.s.fail THEN [v |-> segments, s |-> r2.s]
             ELSE IF size # Zero64
             THEN read_memory_ranges(
                      Append(segments, memory_segment(start_va, size, current_rva)),
                      r2.s, i + 1, number_of_memory_ranges,
                      U64Add(current_rva, size), bytes)
             ELSE read_memory_ranges(segments, r2.s, i + 1,
                                     number_of_memory_ranges, current_rva, bytes)

\* the decoder taking a short read of an entry for a failure
parse_memory64_list_stream_strict(md, s, dir, bytes) ==
    LET s1 == Seekg(s, dir.rva)
        r1 == ReadStruct(s1, 8, bytes)
        r2 == ReadStruct(r1.s, 8, bytes)
        number_of_memory_ranges == LE64(r1.img, 0)
        base_rva == LE64(r2.img, 0)
        rr == read_memory_ranges(md.memory_segments_, r2.s, 0,
                                 number_of_memory_ranges, base_rva, bytes)
    IN  IF r2.s.fail THEN [md |-> md, s |-> r2.s, ok |-> FALSE]
        ELSE [md |-> [md EXCEPT !.memory_segments_ = rr.v], s |-> rr.s,
              ok |-> ~rr.s.fail]

parse_memory64_list_stream(md, s, dir, bytes) ==
    LET s1 == Seekg(s, dir.rva)
        r1 == ReadStruct(s1, 8, bytes)
        r2 == ReadStruct(r1.s, 8, bytes)
        number_of_memory_ranges == LE64(r1.img, 0)
        base_rva == LE64(r2.img, 0)
        rr == read_memory_ranges(md.memory_segments_, r2.s, 0,
                                 number_of_memory_ranges, base_rva, bytes)
    IN  IF r2.s.fail THEN [md |-> md, s |-> r2.s, ok |-> FALSE]
        ELSE [md |-> [md EXCEPT !.memory_segments_ = rr.v], s |-> rr.s, ok |-> TRUE]

RECURSIVE read_memory_infos(_, _, _, _, _)
read_memory_infos(regions, s, i, number_of_entries, bytes) ==
    IF ~(U64Lt(U64(i), number_of_entries) /\ i < SanityCeiling)
    THEN [v |-> regions, s |-> s]
    ELSE LET r == ReadStruct(s, SizeofMemoryInfoEntry, bytes)
         IN  IF ~r.ok THEN [v |-> regions, s |-> r.s]
             ELSE read_memory_infos(Append(regions, DecodeMemoryRegion(r.img)),
                                    r.s, i + 1, number_of_entries, bytes)

\* the decoder without the test of size_of_entry
parse_memory_info_list_stream_any_size(md, s, dir, bytes) ==
    LET s1 == Seekg(s, dir.rva)
        r1 == ReadStruct(s1, 4, bytes)
        r2 == ReadStruct(r1.s, 4, bytes)
        r3 == ReadStruct(r2.s, 8, bytes)
        number_of_entries == LE64(r3.img, 0)
        rr == read_memory_infos(md.memory_regions_, r3.s, 0, number_of_entries, bytes)
    IN  IF r3.s.fail
        THEN [md |-> md, s |-> r3.s, ok |-> FALSE]
        ELSE [md |-> [md EXCEPT !.memory_regions_ = rr.v], s |-> rr.s, ok |-> TRUE]

parse_memory_info_list_stream(md, s, dir, bytes) ==
    LET s1 == Seekg(s, dir.rva)
        r1 == ReadStruct(s1, 4, bytes)
        r2 == ReadStruct(r1.s, 4, bytes)
        r3 == ReadStruct(r2.s, 8, bytes)
        size_of_entry == LE32(r2.img, 0)
        number_of_entries == LE64(r3.img, 0)
        rr == read_memory_infos(md.memory_regions_, r3.s, 0, number_of_entries, bytes)
    IN  IF r3.s.fail \/ size_of_entry # SizeofMemoryInfoEntry
        THEN [md |-> md, s |-> r3.s, ok |-> FALSE]
        ELSE [md |-> [md EXCEPT !.memory_regions_ = rr.v], s |-> rr.s, ok |-> TRUE]

\* the decoder without the test of the stream after the read
parse_system_info_stream_unchecked(md, s, dir, bytes) ==
    LET r == ReadStruct(Seekg(s, dir.rva), SizeofSystemInfo, bytes)
    IN  [md |-> [md EXCEPT !.system_info_ = DecodeSystemInfo(r.img)],
         s |-> r.s, ok |-> TRUE]

parse_system_info_stream(md, s, dir, bytes) ==
    LET r == ReadStruct(Seekg(s, dir.rva), SizeofSystemInfo, bytes)
    IN  [md |-> [md EXCEPT !.system_info_ = DecodeSystemInfo(r.img)],
         s |-> r.s, ok |-> r.ok]

\* the decoder without the test of the stream after the read
parse_exception_stream_unchecked(md, s, dir, bytes) ==
    LET r == ReadStruct(Seekg(s, dir.rva), SizeofExceptionInfo, bytes)
    IN  [md |-> [md EXCEPT !.exception_info_ = DecodeExceptionInfo(r.img)],
         s |-> r.s, ok |-> TRUE]

parse_exception_stream(md, s, dir, bytes) ==
    LET r == ReadStruct(Seekg(s, dir.rva), SizeofExceptionInfo, bytes)
    IN  [md |-> [md EXCEPT !.exception_info_ = DecodeExceptionInfo(r.img)],
         s |-> r.s, ok |-> r.ok]

parse_misc_info_stream(md, s, dir, bytes) ==
    LET r == ReadStruct(Seekg(s, dir.rva), SizeofMiscInfo, bytes)
    IN  [md |-> [md EXCEPT !.misc_info_ = DecodeMiscInfo(r.img)],
         s |-> r.s, ok |-> r.ok]

RECURSIVE read_handles(_, _, _, _, _)

\* the body of the loop: r is the read of the descriptor, rt and ro those of
\* its type name and object name
read_handle(handles, r, rt, ro, i, n, bytes) ==
    read_handles(Append(handles, DecodeHandle(r.img, rt.name, ro.name)),
                 ro.s, i + 1, n, bytes)

read_handle_named(handles, r, rt, i, n, bytes) ==
    read_handle(handles, r, rt,
                ReadName(rt.s, DecodeHandle(r.img, <<>>, <<>>).object_name_rva, bytes),
                i, n, bytes)

read_handle_at(handles, r, i, n, bytes) ==
    IF ~r.ok THEN [v |-> handles, s |-> r.s]
    ELSE read_handle_named(handles, r,
             ReadName(r.s, DecodeHandle(r.img, <<>>, <<>>).type_name_rva, bytes),
             i, n, bytes)

read_handles(handles, s, i, n, bytes) ==
    IF i >= n THEN [v |-> handles, s |-> s]
    ELSE read_handle_at(handles, ReadStruct(s, HandleReadSize, bytes), i, n, bytes)

parse_handle_data_stream(md, s, dir, bytes) ==
    LET r == ReadStruct(Seekg(s, dir.rva), SizeofHandleHeader, bytes)
        number_of_descriptors == LE32(r.img, 8)
        rh == read_handles(md.handles_, r.s, 0, number_of_descriptors, bytes)
    IN  IF ~r.ok THEN [md |-> md, s |-> r.s, ok |-> FALSE]
        ELSE [md |-> [md EXCEPT !.handles_ = rh.v], s |-> rh.s, ok |-> TRUE]

\* the eight stream types parse_streams has a case for
IsDecodedKind(dir) ==
    dir.stream_type \in {thread_list_stream, module_list_stream, memory64_list_stream,
                         memory_info_list_stream, system_info_stream, exception_stream,
                         misc_info_stream, handle_data_stream}

\* a dispatcher that takes the default case for a failure
parse_one_stream_rejecting_unknown(md, s, dir, bytes) ==
    LET c == Clear(s)
        t == dir.stream_type
    IN  IF t = thread_list_stream THEN parse_thread_list_stream(md, c, dir, bytes)
        ELSE IF t = module_list_stream THEN parse_module_list_stream(md, c, dir, bytes)
        ELSE IF t = memory64_list_stream THEN parse_memory64_list_stream(md, c, dir, bytes)
        ELSE IF t = memory_info_list_stream
        THEN parse_memory_info_list_stream(md, c, dir, bytes)
        ELSE IF t = system_info_stream THEN parse_system_info_stream(md, c, dir, bytes)
        ELSE IF t = exception_stream THEN parse_exception_stream(md, c, dir, bytes)
        ELSE IF t = misc_info_stream THEN parse_misc_info_stream(md, c, dir, bytes)
        ELSE IF t = handle_data_stream THEN parse_handle_data_stream(md, c, dir, bytes)
        ELSE [md |-> md, s |-> c, ok |-> FALSE]

\* one iteration of the loop of parse_streams: file.clear(), then the switch
parse_one_stream(md, s, dir, bytes) ==
    LET c == Clear(s)
        t == dir.stream_type
    IN  IF t = thread_list_stream THEN parse_thread_list_stream(md, c, dir, bytes)
        ELSE IF t = module_list_stream THEN parse_module_list_stream(md, c, dir, bytes)
        ELSE IF t = memory64_list_stream THEN parse_memory64_list_stream(md, c, dir, bytes)
        ELSE IF t = memory_info_list_stream
        THEN parse_memory_info_list_stream(md, c, dir, bytes)
        ELSE IF t = system_info_stream THEN parse_system_info_stream(md, c, dir, bytes)
        ELSE IF t = exception_stream THEN parse_exception_stream(md, c, dir, bytes)
        ELSE IF t = misc_info_stream THEN parse_misc_info_stream(md, c, dir, bytes)
        ELSE IF t = handle_data_stream THEN parse_handle_data_stream(md, c, dir, bytes)
        ELSE [md |-> md, s |-> c, ok |-> TRUE]

\* minidump_file::parse_streams over the entries dirs[k..]: [md, s, ok]; the
\* loop returns at the first decoder that fails
RECURSIVE parse_streams_step(_, _, _, _)

parse_streams_from(md, s, dirs, k, bytes) ==
    IF k > Len(dirs) THEN [md |-> md, s |-> s, ok |-> TRUE]
    ELSE parse_streams_step(parse_one_stream(md, s, dirs[k], bytes), dirs, k, bytes)

parse_streams_step(r, dirs, k, bytes) ==
    IF ~r.ok THEN r ELSE parse_streams_from(r.md, r.s, dirs, k + 1, bytes)

\* minidump_file::parse_header: [md, s, ok]
parse_header(md, s, bytes) ==
    LET r == ReadStruct(Seekg(s, 0), SizeofHeader, bytes)
        h == DecodeHeader(r.img)
    IN  [md |-> [md EXCEPT !.header_ = h], s |-> r.s, ok |-> r.ok /\ is_valid(h)]

ZeroDirectory == DecodeDirectory(Zeros(SizeofDirectory))

RECURSIVE read_directories(_, _, _, _, _)
read_directories(dirs, s, i, n, bytes) ==
    IF i >= n THEN [v |-> dirs, s |-> s, ok |-> TRUE]
    ELSE LET r == ReadStruct(s, SizeofDirectory, bytes)
             v == [dirs EXCEPT ![i + 1] = DecodeDirectory(r.img)]
         IN  IF ~r.ok THEN [v |-> v, s |-> r.s, ok |-> FALSE]
             ELSE read_directories(v, r.s, i + 1, n, bytes)

\* parse_directories without the test of the stream after each entry
parse_directories_unchecked(md, s, bytes) ==
    LET n == md.header_.number_of_streams
        r == read_directories(Resize(md.directories_, n, ZeroDirectory),
                              Seekg(s, md.header_.stream_directory_rva), 0, n, bytes)
    IN  [md |-> [md EXCEPT !.directories_ = r.v], s |-> r.s, ok |-> TRUE]

\* minidump_file::parse_directories: [md, s, ok]
parse_directories(md, s, bytes) ==
    LET n == md.header_.number_of_streams
        r == read_directories(Resize(md.directories_, n, ZeroDirectory),
                              Seekg(s, md.header_.stream_directory_rva), 0, n, bytes)
    IN  [md |-> [md EXCEPT !.directories_ = r.v], s |-> r.s, ok |-> r.ok]

\* minidump_file() = default
NewMinidumpFile ==
    [header_ |-> DecodeHeader(Zeros(SizeofHeader)), directories_ |-> <<>>,
     threads_ |-> <<>>, modules_ |-> <<>>, memory_segments_ |-> <<>>,
     memory_regions_ |-> <<>>, handles_ |-> <<>>,
     system_info_ |-> NoSystemInfo, exception_info_ |-> NoExceptionInfo,
     misc_info_ |-> NoMiscInfo]

\* minidump_file::parse_internal on a new minidump_file: [md, s, ok]
parse_after_directories(d, bytes) ==
    IF ~d.ok THEN d ELSE parse_streams_from(d.md, d.s, d.md.directories_, 1, bytes)

parse_after_header(h, bytes) ==
    IF ~h.ok THEN h ELSE parse_after_directories(parse_directories(h.md, h.s, bytes), bytes)

parse_internal(bytes) ==
    parse_after_header(parse_header(NewMinidumpFile, GoodStream, bytes), bytes)

----------------------------------------------------------------------------
(* The reader: memory_segment::read and minidump_reader.                   *)
(* A call yields [outcome, err, data, s]: outcome "ok" or "throw", err the *)
(* exception thrown, data the bytes returned, s the reader's stream after. *)

\* memory_segment::end_virtual_address
end_virtual_address(seg) == U64Add(seg.start_virtual_address, seg.size)

\* contains with the end address included
contains_end_inclusive(seg, address) ==
    /\ U64Le(seg.start_virtual_address, address)
    /\ U64Le(address, end_virtual_address(seg))

\* memory_segment::contains
contains(seg, address) ==
    /\ U64Le(seg.start_virtual_address, address)
    /\ U64Lt(address, end_virtual_address(seg))

\* reads counts the file.read calls the operation made
Throw(e, s) == [outcome |-> "throw", err |-> e, data |-> <<>>, s |-> s, reads |-> 0]

\* std::vector<uint8_t> data(read_size): std::length_error above max_size()
\* (2^63 - 1), std::bad_alloc for a size no allocation can serve
VectorAllocError(read_size) ==
    IF read_size[4] >= 128 * 256 THEN "length_error"
    ELSE IF ~U64IsSmall(read_size) THEN "bad_alloc"
    ELSE "none"

\* memory_segment::read
segment_read(seg, virtual_address, read_size, s, bytes) ==
    IF \/ U64Lt(virtual_address, seg.start_virtual_address)
       \/ ~U64Lt(virtual_address, end_virtual_address(seg))
    THEN Throw("not_in_segment", s)
    ELSE IF U64Lt(end_virtual_address(seg), U64Add(virtual_address, read_size))
    THEN Throw("crosses_boundary", s)
    ELSE LET offset_in_segment == U64Sub(virtual_address, seg.start_virtual_address)
             file_position == U64Add(seg.start_file_address, offset_in_segment)
             current_pos == Tellg(s)
             s1 == Seekg(s, ToStreamPos(file_position))
             n == U64ToNat(read_size)
             r == Read(s1, n, bytes)
         IN  IF VectorAllocError(read_size) # "none"
             THEN Throw(VectorAllocError(read_size), s1)
             ELSE [outcome |-> "ok", err |-> "none", data |-> Pad(r.got, n),
                   s |-> Seekg(r.s, current_pos), reads |-> 1]

\* a scan that answers the last segment containing the address
RECURSIVE find_last_segment_from(_, _, _)
find_last_segment_from(segments, address, i) ==
    IF i > Len(segments) THEN 0
    ELSE LET later == find_last_segment_from(segments, address, i + 1)
         IN  IF later # 0 THEN later
             ELSE IF contains(segments[i], address) THEN i
             ELSE 0

\* minidump_reader::find_memory_segment: index of the segment, 0 for nullptr
RECURSIVE find_segment_from(_, _, _)
find_segment_from(segments, address, i) ==
    IF i > Len(segments) THEN 0
    ELSE IF contains(segments[i], address) THEN i
    ELSE find_segment_from(segments, address, i + 1)

find_memory_segment(md, address) == find_segment_from(md.memory_segments_, address, 1)

\* minidump_reader::read_memory
read_memory(md, s, virtual_address, size, bytes) ==
    LET segment == find_memory_segment(md, virtual_address)
    IN  IF segment = 0 THEN Throw("not_mapped", s)
        ELSE segment_read(md.memory_segments_[segment], virtual_address, size, s, bytes)

\* minidump_reader::get_architecture
get_architecture(md) ==
    IF md.system_info_.present THEN md.system_info_.processor_architecture
    ELSE arch_unknown

\* is_64bit without the aarch64 tag
is_64bit_without_aarch64(md) ==
    LET arch == get_architecture(md)
    IN  arch = arch_amd64 \/ arch = arch_ia64 \/ arch = arch_arm64

\* minidump_reader::is_64bit
is_64bit(md) ==
    LET arch == get_architecture(md)
    IN  arch = arch_amd64 \/ arch = arch_ia64 \/ arch = arch_arm64 \/ arch = arch_aarch64

\* minidump_reader::get_pointer_size
get_pointer_size(md) == IF is_64bit(md) THEN 8 ELSE 4

\* uint64_t result = 0; std::memcpy(&result, data.data(), pointer_size)
memcpy_to_u64(data, pointer_size) ==
    LE64([i \in 1..8 |-> IF i <= pointer_size THEN data[i] ELSE 0], 0)

\* read_pointer answering the value 0 where its read failed
read_pointer_zero_on_failure(md, s, virtual_address, bytes) ==
    LET pointer_size == get_pointer_size(md)
        r == read_memory(md, s, virtual_address, U64(pointer_size), bytes)
    IN  IF r.outcome = "throw"
        THEN [has |-> TRUE, val |-> Zero64, s |-> r.s, data |-> r.data, err |-> r.err]
        ELSE [has |-> TRUE, val |-> memcpy_to_u64(r.data, pointer_size), s |-> r.s,
              data |-> r.data, err |-> r.err]

\* minidump_reader::read_pointer: [has, val, s, data, err]; has = FALSE is
\* std::nullopt; data and err are what its read_memory call gave
read_pointer(md, s, virtual_address, bytes) ==
    LET pointer_size == get_pointer_size(md)
        r == read_memory(md, s, virtual_address, U64(pointer_size), bytes)
    IN  IF r.outcome = "throw"
        THEN [has |-> FALSE, val |-> Zero64, s |-> r.s, data |-> r.data, err |-> r.err]
        ELSE [has |-> TRUE, val |-> memcpy_to_u64(r.data, pointer_size), s |-> r.s,
              data |-> r.data, err |-> r.err]

\* std::find(data.begin(), data.end(), 0): index of the first 0, Len+1 for end()
RECURSIVE find_zero(_, _)
find_zero(data, i) ==
    IF i > Len(data) THEN i
    ELSE IF data[i] = 0 THEN i
    ELSE find_zero(data, i + 1)

\* minidump_reader::read_string: [str, s, data, err]; data and err are what
\* its read_memory call gave
read_string(md, s, virtual_address, max_length, bytes) ==
    LET r == read_memory(md, s, virtual_address, max_length, bytes)
        null_pos == find_zero(r.data, 1)
    IN  IF r.outcome = "throw"
        THEN [str |-> <<>>, s |-> r.s, data |-> r.data, err |-> r.err]
        ELSE [str |-> SubSeq(r.data, 1, null_pos - 1), s |-> r.s,
              data |-> r.data, err |-> r.err]

\* the scan of find_module_by_address with the end address included
RECURSIVE find_module_end_inclusive_from(_, _, _)
find_module_end_inclusive_from(modules, address, i) ==
    IF i > Len(modules) THEN 0
    ELSE IF /\ U64Le(modules[i].base_of_image, address)
            /\ U64Le(address, U64Add(modules[i].base_of_image,
                                     U64(modules[i].size_of_image)))
    THEN i
    ELSE find_module_end_inclusive_from(modules, address, i + 1)

\* minidump_reader::find_module_by_address: index of the module, 0 for nullptr
RECURSIVE find_module_by_address_from(_, _, _)
find_module_by_address_from(modules, address, i) ==
    IF i > Len(modules) THEN 0
    ELSE IF /\ U64Le(modules[i].base_of_image, address)
            /\ U64Lt(address, U64Add(modules[i].base_of_image,
                                     U64(modules[i].size_of_image)))
    THEN i
    ELSE find_module_by_address_from(modules, address, i + 1)

find_module_by_address(md, address) ==
    find_module_by_address_from(md.modules_, address, 1)

\* a find that looks for name at the start of str only
string_find_prefix_only(str, name, pos) ==
    IF Len(name) <= Len(str) /\ SubSeq(str, 1, Len(name)) = name THEN 0 ELSE -1

\* std::string::find(name): first position (0-based) where name occurs, -1 for npos
RECURSIVE string_find(_, _, _)
string_find(str, name, pos) ==
    IF pos + Len(name) > Len(str) THEN -1
    ELSE IF SubSeq(str, pos + 1, pos + Len(name)) = name THEN pos
    ELSE string_find(str, name, pos + 1)

\* minidump_reader::find_module_by_name: index of the module, 0 for nullptr
RECURSIVE find_module_by_name_from(_, _, _)
find_module_by_name_from(modules, name, i) ==
    IF i > Len(modules) THEN 0
    ELSE IF string_find(modules[i].module_name, name, 0) # -1 THEN i
    ELSE find_module_by_name_from(modules, name, i + 1)

find_module_by_name(md, name) == find_module_by_name_from(md.modules_, name, 1)

----------------------------------------------------------------------------
(* The enumerated files.  A dump description d lists the header fields,    *)
(* the stream types of the directory in order, and the contents of the     *)
(* streams; FileOf(d) is its encoding in the layout of the format: header, *)
(* directory, the stream payloads in directory order, the name blocks, the *)
(* memory data; cut > 0 truncates the file to cut bytes, drop > 0 removes  *)
(* the last drop bytes.                                                    *)

EncHeader(sig, nstreams, dir_rva) ==
    Enc32(sig) \o Enc16(42899) \o Enc16(0) \o Enc32(nstreams) \o Enc32(dir_rva)
    \o Enc32(0) \o Enc32(1234) \o Enc64(U64(2))

\* u32 length in bytes, then the UTF-16LE code units
EncNameBlock(name) ==
    Enc32(2 * Len(name)) \o [i \in 1..(2 * Len(name)) |->
                                IF i % 2 = 1 THEN name[(i + 1) \div 2] ELSE 0]

NameBlockLen(name) == IF name = <<>> THEN 0 ELSE 4 + 2 * Len(name)

RECURSIVE NameOffset(_, _, _)
\* offset of the name block of module k, the blocks laid out from base on
NameOffset(mods, k, base) ==
    IF k = 1 THEN base
    ELSE NameOffset(mods, k - 1, base) + NameBlockLen(mods[k - 1].name)

EncModule(m, name_rva) ==
    Enc64(m.base) \o Enc32(m.size) \o Enc32(m.checksum) \o Enc32(m.timestamp)
    \o Enc32(name_rva) \o Zeros(ModuleReadSize - 24)

RECURSIVE Concat(_)
Concat(seqs) == IF seqs = <<>> THEN <<>> ELSE Head(seqs) \o Concat(Tail(seqs))

EncModuleList(mods, name_base) ==
    Enc32(Len(mods))
    \o Concat([k \in 1..Len(mods) |->
                  EncModule(mods[k], IF mods[k].name = <<>> THEN 0
                                     ELSE NameOffset(mods, k, name_base))])

EncMemory64List(segs, data_base) ==
    Enc64(U64(Len(segs))) \o Enc64(U64(data_base))
    \o Concat([k \in 1..Len(segs) |-> Enc64(segs[k].start) \o Enc64(U64(segs[k].size))])

EncThreadList ==
    Enc32(1) \o Enc32(4660) \o Enc32(0) \o Enc32(32) \o Enc32(8)
    \o Enc64(U64(28672)) \o Enc32(0) \o Enc32(0) \o Enc32(0) \o Enc32(0)

EncMemoryInfoList(entry_size) ==
    Enc32(16) \o Enc32(entry_size) \o Enc64(U64(1))
    \o Enc64(U64(16)) \o Enc64(U64(16)) \o Enc32(4) \o Enc32(0)
    \o Enc64(U64(4096)) \o Enc32(4096) \o Enc32(4) \o Enc32(131072) \o Enc32(0)

EncSystemInfo(arch) == Enc16(arch) \o Enc16(6) \o Enc16(0) \o <<4, 1>>
                       \o Enc32(10) \o Enc32(0) \o Enc32(19041) \o Enc32(2)
                       \o Zeros(SizeofSystemInfo - 24)

EncExceptionInfo ==
    Enc32(4660) \o Enc32(0) \o Enc32(5) \o Enc32(0) \o Enc64(Zero64)
    \o Enc64(U64(20)) \o Enc32(0) \o Enc32(0) \o Zeros(120) \o Enc32(0) \o Enc32(0)

EncMiscInfo == Enc32(SizeofMiscInfo) \o Enc32(3) \o Enc32(777) \o Zeros(SizeofMiscInfo - 12)

EncHandleData ==
    Enc32(SizeofHandleHeader) \o Enc32(HandleReadSize) \o Enc32(1) \o Enc32(0)
    \o Enc64(U64(68)) \o Enc32(0) \o Enc32(0) \o Enc32(0) \o Enc32(3) \o Enc32(1)
    \o Enc32(1)

\* the payload of a stream of type t; an unknown type has none
Payload(d, t, name_base, data_base) ==
    IF t = thread_list_stream THEN EncThreadList
    ELSE IF t = module_list_stream THEN EncModuleList(d.mods, name_base)
    ELSE IF t = memory64_list_stream THEN EncMemory64List(d.segs, data_base)
    ELSE IF t = memory_info_list_stream THEN EncMemoryInfoList(d.entry_size)
    ELSE IF t = system_info_stream THEN EncSystemInfo(d.arch)
    ELSE IF t = exception_stream THEN EncExceptionInfo
    ELSE IF t = misc_info_stream THEN EncMiscInfo
    ELSE IF t = handle_data_stream THEN EncHandleData
    ELSE <<>>

RECURSIVE PayloadOffset(_, _, _)
\* offset of the payload of the k-th directory entry
PayloadOffset(d, k, first) ==
    IF k = 1 THEN first
    ELSE PayloadOffset(d, k - 1, first) + Len(Payload(d, d.order[k - 1], 0, 0))

FileOf(d) ==
    LET n == Len(d.order)
        dir_rva == SizeofHeader
        first == dir_rva + SizeofDirectory * n
        name_base == PayloadOffset(d, n + 1, first)
        data_base == NameOffset(d.mods, Len(d.mods) + 1, name_base)
        dirs == Concat([k \in 1..n |->
                    Enc32(d.order[k])
                    \o Enc32(Len(Payload(d, d.order[k], name_base, data_base)))
                    \o Enc32(PayloadOffset(d, k, first))])
        payloads == Concat([k \in 1..n |-> Payload(d, d.order[k], name_base, data_base)])
        names == Concat([k \in 1..Len(d.mods) |->
                    IF d.mods[k].name = <<>> THEN <<>> ELSE EncNameBlock(d.mods[k].name)])
        full == EncHeader(d.sig, d.nstreams, dir_rva) \o dirs \o payloads
                \o names \o d.data
        kept == IF d.cut > 0 THEN Min(d.cut, Len(full)) ELSE Len(full) - d.drop
    IN  SubSeq(full, 1, kept)

\* bytes with the bytes v written over it from offset off on
Patch(bytes, off, v) ==
    [i \in 1..Len(bytes) |-> IF off < i /\ i <= off + Len(v) THEN v[i - off] ELSE bytes[i]]

\* offset of the k-th directory entry, and of its stream, in FileOf(d)
DirOffset(k) == SizeofHeader + SizeofDirectory * (k - 1)

StreamOffset(d, k) == PayloadOffset(d, k, SizeofHeader + SizeofDirectory * Len(d.order))

----------------------------------------------------------------------------
(* Enumerated inputs *)

LowAddr == 16 - 1

\* "abc\0def\x01" followed by eight zero bytes
MemoryData == <<97, 98, 99, 0, 100, 101, 102, 1, 0, 0, 0, 0, 0, 0, 0, 0>>

Seg(start, size) == [start |-> start, size |-> size]

SegsAdjacent == <<Seg(U64(16), 8), Seg(U64(24), 8)>>
SegsOverlap == <<Seg(U64(16), 8), Seg(U64(20), 8)>>
SegsGap == <<Seg(U64(20), 4), Seg(U64(16), 0), Seg(U64(28), 4)>>
\* the first ends 4 below 2^64, the second's end wraps to 4
SegsHigh == <<Seg(U64Neg(12), 8), Seg(U64Neg(4), 8)>>

Mod(base, size, name) ==
    [base |-> base, size |-> size, checksum |-> 7, timestamp |-> 9, name |-> name]

ModsOverlap == <<Mod(U64(16), 8, <<97, 98, 99>>), Mod(U64(20), 8, <<98, 99, 97>>)>>
ModsAdjacent == <<Mod(U64(24), 4, <<>>), Mod(U64(28), 4, <<97, 98>>),
                  Mod(U64Neg(4), 8, <<99>>)>>

BaseDump ==
    [sig |-> expected_signature, nstreams |-> 3,
     order |-> <<system_info_stream, module_list_stream, memory64_list_stream>>,
     arch |-> arch_amd64, mods |-> ModsOverlap, segs |-> SegsAdjacent,
     entry_size |-> SizeofMemoryInfoEntry, data |-> MemoryData, cut |-> 0, drop |-> 0]

AllStreams ==
    <<thread_list_stream, exception_stream, misc_info_stream,
      memory_info_list_stream, handle_data_stream, 5, system_info_stream,
      module_list_stream, memory64_list_stream>>

Dumps ==
    {[BaseDump EXCEPT !.arch = a] : a \in (0..MaxArchTag) \cup {arch_unknown}}
    \cup {[BaseDump EXCEPT !.segs = g, !.mods = m, !.arch = a] :
             g \in {SegsOverlap, SegsGap, SegsHigh},
             m \in {ModsOverlap, ModsAdjacent}, a \in {0, arch_amd64}}
    \cup {[BaseDump EXCEPT !.drop = k, !.arch = a] :
             k \in {4, 8, 16}, a \in {0, arch_amd64}}
    \cup {[BaseDump EXCEPT !.order = <<module_list_stream, memory64_list_stream>>,
                           !.nstreams = 2, !.mods = m] : m \in {ModsOverlap, ModsAdjacent}}
    \cup {[BaseDump EXCEPT !.order = AllStreams, !.nstreams = Len(AllStreams),
                           !.entry_size = e, !.drop = k] :
             e \in {SizeofMemoryInfoEntry, 40}, k \in {0, 4}}
    \cup {[BaseDump EXCEPT !.sig = s, !.nstreams = n] :
             s \in {expected_signature, 1347241038, 0}, n \in {0, 3}}
    \cup {[BaseDump EXCEPT !.cut = c] : c \in {0, 20, 31, 40, 67, 100, 200}}

AllStreamsDump == [BaseDump EXCEPT !.order = AllStreams, !.nstreams = Len(AllStreams)]

\* the sixth directory entry of AllStreamsDump, of a type parse_streams has no
\* case for, with other tags and with size and offset fields of every kind
UnknownEntryFiles ==
    {Patch(FileOf(AllStreamsDump), DirOffset(6), Enc32(tag) \o Enc32(f[1]) \o Enc32(f[2])) :
        tag \in {0, 5, 8, 17},
        f \in {<<0, 0>>, <<FarPos, FarPos>>, <<1024, StreamOffset(AllStreamsDump, 8)>>}}

\* the minimal file: header, one module with a name, one memory segment of
\* 0x1000 bytes at 0x100000000
MinimalDump ==
    [sig |-> expected_signature, nstreams |-> 2,
     order |-> <<module_list_stream, memory64_list_stream>>, arch |-> 0,
     mods |-> <<[base |-> <<0, 4660, 32758, 0>>, size |-> 8192, checksum |-> 305441741,
                 timestamp |-> 1600000000, name |-> <<97, 46, 100, 108, 108>>]>>,
     segs |-> <<Seg(<<0, 0, 1, 0>>, 4096)>>,
     entry_size |-> SizeofMemoryInfoEntry,
     data |-> [i \in 1..4096 |-> i % 251], cut |-> 0, drop |-> 0]

\* files parsed for the comparison with what was encoded, each with its description
RoundTripDumps ==
    {MinimalDump, BaseDump, [BaseDump EXCEPT !.mods = ModsAdjacent, !.segs = SegsHigh]}

RoundTripFiles == {<<d, FileOf(d)>> : d \in RoundTripDumps}

ModulesFirstDump ==
    [BaseDump EXCEPT !.order = <<module_list_stream, memory64_list_stream>>, !.nstreams = 2]

\* an element count far above what the file holds
DeclaredCount == 5 * SanityCeiling

\* the module list of ModulesFirstDump and the thread list of AllStreamsDump
\* (its first stream) declaring DeclaredCount elements
OversizedCountFiles ==
    {Patch(FileOf(ModulesFirstDump), StreamOffset(ModulesFirstDump, 1), Enc32(DeclaredCount)),
     Patch(FileOf(AllStreamsDump), StreamOffset(AllStreamsDump, 1), Enc32(DeclaredCount))}

\* FileOf(AllStreamsDump) followed by the first c bytes of its k-th stream,
\* the k-th directory entry pointing at that copy: the stream is the last
\* thing in the file and ends c bytes in
TailStreamFile(k, c) ==
    Patch(FileOf(AllStreamsDump)
              \o SubSeq(FileOf(AllStreamsDump), StreamOffset(AllStreamsDump, k) + 1,
                        StreamOffset(AllStreamsDump, k) + c),
          DirOffset(k) + 4, Enc32(c) \o Enc32(Len(FileOf(AllStreamsDump))))

\* every stream type cut inside its first field, inside its fixed head or
\* first record, and inside a later entry
TailCuts == {2, 10, 40}

TruncatedStreamFiles ==
    {TailStreamFile(k, c) : k \in 1..Len(AllStreams) \ {6}, c \in TailCuts}

\* n bytes of UTF-16LE: two 'a's, then NUL code units
Utf16As(n) == [i \in 1..n |-> IF i \in {1, 3} THEN 97 ELSE 0]

\* what a name offset can point at, at the very end of the file: a length
\* field cut short, a name cut short, the lengths 0, 4, the lengths around
\* the limit with all their bytes present, a length above it with none
NameBlocks ==
    {<<6, 0>>, Enc32(10) \o Utf16As(2), Enc32(0), Enc32(4) \o <<120, 0, 121, 0>>,
     Enc32(NameLengthLimit - 1) \o Utf16As(NameLengthLimit - 1),
     Enc32(NameLengthLimit) \o Utf16As(NameLengthLimit),
     Enc32(NameLengthLimit + 1)}

\* offset of the module_name_rva field of the i-th record of the module list
\* of ModulesFirstDump
NameRvaOffset(i) ==
    StreamOffset(ModulesFirstDump, 1) + 4 + ModuleReadSize * (i - 1) + 20

\* FileOf(ModulesFirstDump) with the name of its i-th module at the end of
\* the file, or past it
ModuleNameFiles ==
    {Patch(FileOf(ModulesFirstDump) \o b, NameRvaOffset(i),
           Enc32(Len(FileOf(ModulesFirstDump)))) : i \in {1, 2}, b \in NameBlocks}
    \cup {Patch(FileOf(ModulesFirstDump), NameRvaOffset(i), Enc32(FarPos)) : i \in {1, 2}}

\* FileOf(BaseDump) with a header declaring DeclaredCount streams: the file
\* ends long before the last of them
OversizedDirectoryFile == Patch(FileOf(BaseDump), 8, Enc32(DeclaredCount))

\* the memory-info list of AllStreamsDump as the last thing in the file, whole,
\* declaring two entries where it has one
OverdeclaredRegionsFile ==
    Patch(TailStreamFile(4, 16 + SizeofMemoryInfoEntry),
          Len(FileOf(AllStreamsDump)) + 8, Enc64(U64(2)))

Files ==
    {FileOf(d) : d \in Dumps \cup RoundTripDumps} \cup UnknownEntryFiles
    \cup OversizedCountFiles \cup TruncatedStreamFiles \cup ModuleNameFiles
    \cup {OversizedDirectoryFile, OverdeclaredRegionsFile}

Addresses ==
    {U64(LowAddr + k) : k \in 0..AddrSpan} \cup {U64Neg(k) : k \in 1..HighSpan}

SIZE_MAX == U64Neg(1)

Lengths == {U64(n) : n \in 0..MaxLen}

\* read_memory(a, n): every small length at every address, SIZE_MAX at the
\* second address of each window
HugeReads == {U64(LowAddr + 1), U64Neg(HighSpan - 1)} \X {SIZE_MAX}

ReadArgs == (Addresses \X Lengths) \cup HugeReads

\* read_string(a, n): the lengths 0 and MaxLen-2..MaxLen, SIZE_MAX as above
StringArgs ==
    (Addresses \X {U64(n) : n \in {0} \cup ((MaxLen - 2)..MaxLen)}) \cup HugeReads

Names ==
    {<<>>, <<97>>, <<98, 99>>, <<99, 97>>, <<97, 99>>, <<97, 98, 99>>,
     <<97, 98, 99, 97>>, <<100>>}

----------------------------------------------------------------------------
(* State *)

VARIABLES
    fileBytes,   \* the contents of the file named filename_
    pc,          \* where parse() is: "header", "directories", "streams", "done"
    md,          \* the minidump_file under construction, then the snapshot
    file,        \* the std::ifstream of parse()
    dirIdx,      \* the directory entry parse_streams is at (1-based)
    result,      \* what parse() returned: "none" yet, "ok" (a snapshot), "null"
    failedAt,    \* the step that made parse() fail, "none" otherwise
    readerOpen,  \* a minidump_reader exists
    stream_,     \* the reader's std::ifstream
    last,        \* the last reader call, its arguments and what it returned
    readers,     \* two readers of one snapshot, their streams and calls in progress
    fromBuffer   \* the parse_from_buffer calls in progress and their temp file

vars ==
    <<fileBytes, pc, md, file, dirIdx, result, failedAt, readerOpen, stream_, last,
      readers, fromBuffer>>

NoCall ==
    [op |-> "none", addr |-> Zero64, len |-> Zero64, name |-> <<>>,
     outcome |-> "none", err |-> "none", data |-> <<>>, has |-> FALSE,
     val |-> Zero64, str |-> <<>>, idx |-> 0, psize |-> 0, reads |-> 0]

\* no parse_from_buffer call: path is the file the name /tmp/minidump_temp.dmp
\* leads to (0: none), inodes the contents of the files created under it
NoBufferCalls == [path |-> 0, inodes |-> <<>>, calls |-> <<>>]

\* no further readers: the specification of one reader
NoReaders == [handles |-> <<>>, calls |-> <<>>]

Init ==
    /\ fileBytes \in Files
    /\ pc = "header"
    /\ md = NewMinidumpFile
    /\ file = GoodStream
    /\ dirIdx = 0
    /\ result = "none"
    /\ failedAt = "none"
    /\ readerOpen = FALSE
    /\ stream_ = GoodStream
    /\ last = NoCall
    /\ readers = NoReaders
    /\ fromBuffer = NoBufferCalls

----------------------------------------------------------------------------
(* minidump_file::parse, one action per step of parse_internal *)

ParseFails(step) ==
    /\ pc' = "done"
    /\ result' = "null"
    /\ failedAt' = step

ParseHeader ==
    /\ pc = "header"
    /\ \E r \in {parse_header(md, file, fileBytes)} :
           /\ md' = r.md
           /\ file' = r.s
           /\ IF r.ok THEN pc' = "directories" /\ UNCHANGED <<result, failedAt>>
              ELSE ParseFails("header")
    /\ UNCHANGED <<fileBytes, dirIdx, readerOpen, stream_, last, readers, fromBuffer>>

ParseDirectories ==
    /\ pc = "directories"
    /\ \E r \in {parse_directories(md, file, fileBytes)} :
           /\ md' = r.md
           /\ file' = r.s
           /\ IF r.ok THEN pc' = "streams" /\ dirIdx' = 1 /\ UNCHANGED <<result, failedAt>>
              ELSE ParseFails("directories") /\ UNCHANGED dirIdx
    /\ UNCHANGED <<fileBytes, readerOpen, stream_, last, readers, fromBuffer>>

ParseStream ==
    /\ pc = "streams"
    /\ dirIdx <= Len(md.directories_)
    /\ \E r \in {parse_one_stream(md, file, md.directories_[dirIdx], fileBytes)} :
           /\ md' = r.md
           /\ file' = r.s
           /\ IF r.ok THEN pc' = "streams" /\ dirIdx' = dirIdx + 1
                           /\ UNCHANGED <<result, failedAt>>
              ELSE ParseFails("stream") /\ UNCHANGED dirIdx
    /\ UNCHANGED <<fileBytes, readerOpen, stream_, last, readers, fromBuffer>>

ParseReturn ==
    /\ pc = "streams"
    /\ dirIdx > Len(md.directories_)
    /\ pc' = "done"
    /\ result' = "ok"
    /\ UNCHANGED <<fileBytes, md, file, dirIdx, failedAt, readerOpen, stream_, last, readers, fromBuffer>>

----------------------------------------------------------------------------
(* minidump_file::get_reader and the minidump_reader operations *)

GetReader ==
    /\ result = "ok"
    /\ ~readerOpen
    /\ readerOpen' = TRUE
    /\ stream_' = GoodStream
    /\ UNCHANGED <<fileBytes, pc, md, file, dirIdx, result, failedAt, last, readers, fromBuffer>>

\* a reader that empties the segment list of the snapshot it reads from
FrameDroppingSegments ==
    /\ md' = [md EXCEPT !.memory_segments_ = <<>>]
    /\ UNCHANGED <<fileBytes, pc, file, dirIdx, result, failedAt, readerOpen, readers, fromBuffer>>

Frame ==
    UNCHANGED <<fileBytes, pc, md, file, dirIdx, result, failedAt, readerOpen, readers, fromBuffer>>

\* a reader exists and its caller is between two calls
Idle == readerOpen /\ last.op = "none"

\* the caller takes the result of the call and goes on
Return ==
    /\ readerOpen
    /\ last.op # "none"
    /\ last' = NoCall
    /\ UNCHANGED stream_
    /\ Frame

ReadMemory ==
    /\ Idle
    /\ \E arg \in ReadArgs :
          LET a == arg[1]
              n == arg[2]
              r == read_memory(md, stream_, a, n, fileBytes)
          IN  /\ stream_' = r.s
              /\ last' = [NoCall EXCEPT !.op = "read_memory", !.addr = a, !.len = n,
                             !.outcome = r.outcome, !.err = r.err, !.data = r.data,
                             !.reads = r.reads]
    /\ Frame

ReadPointer ==
    /\ Idle
    /\ \E a \in Addresses :
          LET r == read_pointer(md, stream_, a, fileBytes)
          IN  /\ stream_' = r.s
              /\ last' = [NoCall EXCEPT !.op = "read_pointer", !.addr = a,
                             !.outcome = "ok", !.has = r.has, !.val = r.val,
                             !.data = r.data, !.err = r.err]
    /\ Frame

ReadString ==
    /\ Idle
    /\ \E arg \in StringArgs :
          LET a == arg[1]
              n == arg[2]
              r == read_string(md, stream_, a, n, fileBytes)
          IN  /\ stream_' = r.s
              /\ last' = [NoCall EXCEPT !.op = "read_string", !.addr = a, !.len = n,
                             !.outcome = "ok", !.str = r.str, !.data = r.data,
                             !.err = r.err]
    /\ Frame

FindModuleByAddress ==
    /\ Idle
    /\ \E a \in Addresses :
          last' = [NoCall EXCEPT !.op = "find_module_by_address", !.addr = a,
                      !.outcome = "ok", !.idx = find_module_by_address(md, a)]
    /\ UNCHANGED stream_
    /\ Frame

FindModuleByName ==
    /\ Idle
    /\ \E name \in Names :
          last' = [NoCall EXCEPT !.op = "find_module_by_name", !.name = name,
                      !.outcome = "ok", !.idx = find_module_by_name(md, name)]
    /\ UNCHANGED stream_
    /\ Frame

FindMemorySegment ==
    /\ Idle
    /\ \E a \in Addresses :
          last' = [NoCall EXCEPT !.op = "find_memory_segment", !.addr = a,
                      !.outcome = "ok", !.idx = find_memory_segment(md, a)]
    /\ UNCHANGED stream_
    /\ Frame

GetPointerSize ==
    /\ Idle
    /\ last' = [NoCall EXCEPT !.op = "get_pointer_size", !.outcome = "ok",
                   !.psize = get_pointer_size(md)]
    /\ UNCHANGED stream_
    /\ Frame

Next ==
    \/ ParseHeader
    \/ ParseDirectories
    \/ ParseStream
    \/ ParseReturn
    \/ GetReader
    \/ ReadMemory
    \/ ReadPointer
    \/ ReadString
    \/ FindModuleByAddress
    \/ FindModuleByName
    \/ FindMemorySegment
    \/ GetPointerSize
    \/ Return

Spec == Init /\ [][Next]_vars

----------------------------------------------------------------------------
(* Two readers of one snapshot, a read_memory call of each taken step by   *)
(* step: the lookup and the two tests, then tellg, seekg, read and the     *)
(* seekg back of memory_segment::read, the steps of the two interleaved.   *)

ReaderIds == {1, 2}

\* every reader working on the stream of the first
SharedHandle(i) == 1

\* the stream a reader works on: its own member stream_
HandleOf(i) == i

ReaderDumps ==
    {[BaseDump EXCEPT !.arch = 0, !.segs = g, !.drop = k] :
        g \in {SegsAdjacent, SegsOverlap}, k \in {0, 8}}

ReaderArgs == {U64(16), U64(22), U64(24), U64(40)} \X {U64(1), U64(4)}

IdleCall ==
    [pc |-> "idle", addr |-> Zero64, len |-> Zero64, seg |-> 0, s0 |-> GoodStream,
     current_pos |-> 0, data |-> <<>>, outcome |-> "none", err |-> "none",
     raced |-> FALSE]

\* parse has returned a snapshot and get_reader was called twice
InitReaders ==
    /\ fileBytes \in {FileOf(d) : d \in ReaderDumps}
    /\ pc = "done"
    /\ md = parse_internal(fileBytes).md
    /\ file = parse_internal(fileBytes).s
    /\ dirIdx = Len(md.directories_) + 1
    /\ result = "ok"
    /\ failedAt = "none"
    /\ readerOpen = FALSE
    /\ stream_ = GoodStream
    /\ last = NoCall
    /\ readers = [handles |-> [i \in ReaderIds |-> GoodStream],
                  calls |-> [i \in ReaderIds |-> IdleCall]]
    /\ fromBuffer = NoBufferCalls

FrameOfReaders ==
    UNCHANGED <<fileBytes, pc, md, file, dirIdx, result, failedAt, readerOpen, stream_,
                last, fromBuffer>>

\* reader i goes on with call c and leaves its stream at s; a call of another
\* reader that is between its seekg and its seekg back has been interleaved with
StepOfReader(i, c, s) ==
    /\ readers' =
          [handles |-> [readers.handles EXCEPT ![HandleOf(i)] = s],
           calls |-> [j \in ReaderIds |->
                        IF j = i THEN c
                        ELSE IF readers.calls[j].pc \in {"seekg", "read", "seekback"}
                        THEN [readers.calls[j] EXCEPT !.raced = TRUE]
                        ELSE readers.calls[j]]]
    /\ FrameOfReaders

\* read_memory up to the tests of memory_segment::read
BeginRead(i) ==
    /\ readers.calls[i].pc = "idle"
    /\ \E arg \in ReaderArgs :
          LET s == readers.handles[HandleOf(i)]
              tested == read_memory(md, s, arg[1], arg[2], fileBytes)
              c == [IdleCall EXCEPT !.addr = arg[1], !.len = arg[2], !.s0 = s,
                                    !.seg = find_memory_segment(md, arg[1])]
          IN  /\ readers' =
                    [readers EXCEPT !.calls[i] =
                        IF tested.outcome = "throw"
                        THEN [c EXCEPT !.pc = "returned", !.outcome = "throw",
                                       !.err = tested.err]
                        ELSE [c EXCEPT !.pc = "tellg"]]
              /\ FrameOfReaders

\* auto current_pos = file.tellg()
DoTellg(i) ==
    /\ readers.calls[i].pc = "tellg"
    /\ readers' = [readers EXCEPT !.calls[i].pc = "seekg",
                      !.calls[i].current_pos = Tellg(readers.handles[HandleOf(i)])]
    /\ FrameOfReaders

\* file.seekg(file_position)
DoSeekg(i) ==
    LET c == readers.calls[i]
        seg == md.memory_segments_[c.seg]
        file_position == U64Add(seg.start_file_address,
                                U64Sub(c.addr, seg.start_virtual_address))
    IN  /\ c.pc = "seekg"
        /\ StepOfReader(i, [c EXCEPT !.pc = "read"],
                        Seekg(readers.handles[HandleOf(i)], ToStreamPos(file_position)))

\* std::vector<uint8_t> data(read_size); file.read(data.data(), read_size)
DoRead(i) ==
    LET c == readers.calls[i]
        n == U64ToNat(c.len)
        r == Read(readers.handles[HandleOf(i)], n, fileBytes)
    IN  /\ c.pc = "read"
        /\ StepOfReader(i, [c EXCEPT !.pc = "seekback", !.data = Pad(r.got, n)], r.s)

\* file.seekg(current_pos); return data
DoSeekBack(i) ==
    LET c == readers.calls[i]
    IN  /\ c.pc = "seekback"
        /\ StepOfReader(i, [c EXCEPT !.pc = "returned", !.outcome = "ok"],
                        Seekg(readers.handles[HandleOf(i)], c.current_pos))

\* the caller takes the bytes or the exception
TakeResult(i) ==
    /\ readers.calls[i].pc = "returned"
    /\ readers' = [readers EXCEPT !.calls[i] = IdleCall]
    /\ FrameOfReaders

NextReaders ==
    \E i \in ReaderIds :
        \/ BeginRead(i)
        \/ DoTellg(i)
        \/ DoSeekg(i)
        \/ DoRead(i)
        \/ DoSeekBack(i)
        \/ TakeResult(i)

SpecReaders == InitReaders /\ [][NextReaders]_vars

----------------------------------------------------------------------------
(* Two parse_from_buffer calls in one process, each taken step by step:    *)
(* open the temp file for writing, write the buffer and close, parse the   *)
(* temp file, remove it, return; then get_reader on the snapshot returned  *)
(* and one read_memory through that reader.  Both calls use the one name   *)
(* /tmp/minidump_temp.dmp.  A file that is open stays readable and         *)
(* writable through its stream after its name is removed.                  *)

CallerIds == {1, 2}

BufferDumps ==
    {BaseDump, [BaseDump EXCEPT !.segs = SegsOverlap, !.mods = ModsAdjacent],
     [BaseDump EXCEPT !.order = <<module_list_stream, memory64_list_stream>>,
                      !.nstreams = 2]}

Buffers == {FileOf(d) : d \in BufferDumps}

BufferReadArgs == {U64(16), U64(24)} \X {U64(4)}

NewBufferCall(buffer) ==
    [pc |-> "start", buffer |-> buffer, fd |-> 0, md |-> NewMinidumpFile,
     result |-> "none", reader |-> "none", rfd |-> 0, addr |-> Zero64, len |-> Zero64,
     outcome |-> "none", data |-> <<>>]

InitBuffers ==
    /\ fileBytes = <<>>
    /\ pc = "done"
    /\ md = NewMinidumpFile
    /\ file = GoodStream
    /\ dirIdx = 0
    /\ result = "none"
    /\ failedAt = "none"
    /\ readerOpen = FALSE
    /\ stream_ = GoodStream
    /\ last = NoCall
    /\ readers = NoReaders
    /\ \E b1, b2 \in Buffers :
           /\ b1 # b2
           /\ fromBuffer = [path |-> 0, inodes |-> <<>>,
                            calls |-> [i \in CallerIds |->
                                         NewBufferCall(IF i = 1 THEN b1 ELSE b2)]]

FrameOfBuffers ==
    UNCHANGED <<fileBytes, pc, md, file, dirIdx, result, failedAt, readerOpen, stream_,
                last, readers>>

\* a write of the bytes new at offset 0 of a file holding old
Overlay(old, new) == new \o SubSeq(old, Len(new) + 1, Len(old))

\* std::ofstream temp_file(temp_filename, std::ios::binary): creates the file
\* or truncates the one the name leads to
OpenTemp(i) ==
    /\ fromBuffer.calls[i].pc = "start"
    /\ \E f \in {fromBuffer.path} :
           IF f = 0
           THEN fromBuffer' =
                    [path |-> Len(fromBuffer.inodes) + 1,
                     inodes |-> Append(fromBuffer.inodes, <<>>),
                     calls |-> [fromBuffer.calls EXCEPT ![i].pc = "write",
                                    ![i].fd = Len(fromBuffer.inodes) + 1]]
           ELSE fromBuffer' =
                    [fromBuffer EXCEPT !.inodes[f] = <<>>, !.calls[i].pc = "write",
                                       !.calls[i].fd = f]
    /\ FrameOfBuffers

\* temp_file.write(buffer.data(), buffer.size()); temp_file.close()
WriteTemp(i) ==
    /\ fromBuffer.calls[i].pc = "write"
    /\ fromBuffer' =
           [fromBuffer EXCEPT
               !.inodes[fromBuffer.calls[i].fd] =
                   Overlay(fromBuffer.inodes[fromBuffer.calls[i].fd],
                           fromBuffer.calls[i].buffer),
               !.calls[i].pc = "parse"]
    /\ FrameOfBuffers

\* what parse(temp_filename) returns when the name leads to file f
parse_file(inodes, f) ==
    IF f = 0 THEN [md |-> NewMinidumpFile, s |-> GoodStream, ok |-> FALSE]
    ELSE parse_internal(inodes[f])

\* auto result = parse(temp_filename)
ParseTemp(i) ==
    /\ fromBuffer.calls[i].pc = "parse"
    /\ \E r \in {parse_file(fromBuffer.inodes, fromBuffer.path)} :
           fromBuffer' =
               [fromBuffer EXCEPT !.calls[i].pc = "remove", !.calls[i].md = r.md,
                                  !.calls[i].result = IF r.ok THEN "ok" ELSE "null"]
    /\ FrameOfBuffers

\* std::remove(temp_filename.c_str()); return result
RemoveTemp(i) ==
    /\ fromBuffer.calls[i].pc = "remove"
    /\ fromBuffer' = [fromBuffer EXCEPT !.path = 0, !.calls[i].pc = "returned"]
    /\ FrameOfBuffers

\* get_reader() on the snapshot returned: the reader opens filename(), the
\* name of the temp file, and throws when that fails
GetReaderOfBuffer(i) ==
    /\ fromBuffer.calls[i].pc = "returned"
    /\ fromBuffer.calls[i].result = "ok"
    /\ fromBuffer' =
           [fromBuffer EXCEPT
               !.calls[i].pc = "reader",
               !.calls[i].reader = IF fromBuffer.path = 0 THEN "throw" ELSE "open",
               !.calls[i].rfd = fromBuffer.path]
    /\ FrameOfBuffers

\* read_memory through that reader
ReadOfBuffer(i) ==
    /\ fromBuffer.calls[i].pc = "reader"
    /\ fromBuffer.calls[i].reader = "open"
    /\ \E arg \in BufferReadArgs :
       \E r \in {read_memory(fromBuffer.calls[i].md, GoodStream, arg[1], arg[2],
                              fromBuffer.inodes[fromBuffer.calls[i].rfd])} :
           fromBuffer' =
               [fromBuffer EXCEPT !.calls[i].pc = "read", !.calls[i].addr = arg[1],
                                  !.calls[i].len = arg[2],
                                  !.calls[i].outcome = r.outcome,
                                  !.calls[i].data = r.data]
    /\ FrameOfBuffers

NextBuffers ==
    \E i \in CallerIds :
        \/ OpenTemp(i)
        \/ WriteTemp(i)
        \/ ParseTemp(i)
        \/ RemoveTemp(i)
        \/ GetReaderOfBuffer(i)
        \/ ReadOfBuffer(i)

SpecBuffers == InitBuffers /\ [][NextBuffers]_vars

----------------------------------------------------------------------------
(* Vocabulary of the properties.  Ranges are taken mathematically here:    *)
(* x + y is the pair [carry, sum], compared as a 65-bit number.            *)

WideLt(p, q) == p.carry < q.carry \/ (p.carry = q.carry /\ U64Lt(p.sum, q.sum))

WideLe(p, q) == p = q \/ WideLt(p, q)

Segments == md.memory_segments_

SegEnd(S) == U64AddC(S.start_virtual_address, S.size)

\* start <= a < start + size
InSegment(S, a) ==
    /\ U64Le(S.start_virtual_address, a)
    /\ WideLt([sum |-> a, carry |-> 0], SegEnd(S))

\* the segment's end is an address: start + size does not pass 2^64
WellFormed(S) == SegEnd(S).carry = 0

OnlySegmentAt(i, a) ==
    /\ InSegment(Segments[i], a)
    /\ \A j \in 1..Len(Segments) : j # i => ~InSegment(Segments[j], a)

\* the file offset of address a of segment S, and whether the file holds the
\* n bytes from there
FileOffset(S, a) ==
    U64ToNat(S.start_file_address) + U64ToNat(U64Sub(a, S.start_virtual_address))

InFile(S, a, n) == FileOffset(S, a) + n <= Len(fileBytes)

\* the n file bytes of address a of segment S
FileData(S, a, n) == [k \in 1..n |-> fileBytes[FileOffset(S, a) + k]]

IsFileData(data, S, a) ==
    \A k \in 1..Len(data) : data[k] = fileBytes[FileOffset(S, a) + k]

----------------------------------------------------------------------------
(* C1.  For every segment S of the snapshot, every address a in S and      *)
(* every length L with a + L <= S.start + S.size, read_memory(a, L)        *)
(* returns exactly L bytes, byte i being the file byte at offset           *)
(* S.file_offset + (a - S.start) + i.  Stated for the segments the claim   *)
(* is least demanding about: S is well formed, the only segment that       *)
(* holds a, and the file holds the L bytes.                                *)
C1_ReadReturnsFileBytes ==
    last.op = "read_memory" =>
        \A i \in 1..Len(Segments) :
            LET S == Segments[i]
            IN  ( /\ WellFormed(S)
                  /\ OnlySegmentAt(i, last.addr)
                  /\ WideLe(U64AddC(last.addr, last.len), SegEnd(S))
                  /\ InFile(S, last.addr, U64ToNat(last.len)) )
                => /\ last.outcome = "ok"
                   /\ Len(last.data) = U64ToNat(last.len)
                   /\ IsFileData(last.data, S, last.addr)

(* C2.  For every address a in a segment S and every length L with a + L   *)
(* greater than S's end, read_memory(a, L) fails with the                  *)
(* crosses-segment-boundary error and returns no bytes, also when another  *)
(* segment starts at S's end.  Stated for well-formed S that is the only   *)
(* segment holding a.                                                      *)
C2_CrossingRejected ==
    last.op = "read_memory" =>
        \A i \in 1..Len(Segments) :
            LET S == Segments[i]
            IN  ( /\ WellFormed(S)
                  /\ OnlySegmentAt(i, last.addr)
                  /\ WideLt(SegEnd(S), U64AddC(last.addr, last.len)) )
                => /\ last.outcome = "throw"
                   /\ last.err = "crosses_boundary"
                   /\ last.data = <<>>

(* C3.  read_memory(a, L) fails with the address-not-mapped error whenever *)
(* no segment of the snapshot contains a, for every L including 0, and     *)
(* makes no file read then.                                                *)
C3_UnmappedRejected ==
    ( /\ last.op = "read_memory"
      /\ \A i \in 1..Len(Segments) : ~InSegment(Segments[i], last.addr) )
    => /\ last.outcome = "throw"
       /\ last.err = "not_mapped"
       /\ last.data = <<>>
       /\ last.reads = 0

\* an unmapped read of length 0 in a snapshot that has segments
C3_Witness ==
    /\ last.op = "read_memory"
    /\ last.err = "not_mapped"
    /\ last.len = Zero64
    /\ Len(Segments) > 0

----------------------------------------------------------------------------
\* the header as the file holds it (absent bytes read as 0)
FileHeader == DecodeHeader(Pad(SubSeq(fileBytes, 1, Min(Len(fileBytes), SizeofHeader)),
                               SizeofHeader))

FileHeaderValid ==
    FileHeader.signature = 1347241037 /\ FileHeader.number_of_streams > 0

\* the file holds the whole header and the whole directory the header declares
DirectoryInFile ==
    /\ Len(fileBytes) >= SizeofHeader
    /\ FileHeader.stream_directory_rva + SizeofDirectory * FileHeader.number_of_streams
           <= Len(fileBytes)

(* C4, as claimed.  parse returns a snapshot if and only if the header's   *)
(* signature is 0x504D444D and its stream count is greater than 0.         *)
C4_ParseIffHeaderValid ==
    pc = "done" => (result = "ok" <=> FileHeaderValid)

(* C4, amended.  parse returns a snapshot only if the header's signature   *)
(* is 0x504D444D and its stream count is greater than 0: every other       *)
(* header makes it return none.  With such a header it returns a snapshot  *)
(* exactly when the file holds the whole header and directory and no       *)
(* decoder of a known stream fails.                                        *)
C4_ParseOnlyIfHeaderValid ==
    pc = "done" =>
        /\ result \in {"ok", "null"}
        /\ ~FileHeaderValid => result = "null"
        /\ result = "ok" <=> (FileHeaderValid /\ DirectoryInFile /\ failedAt # "stream")

\* parse ran to its end on a file with a valid header and returned a snapshot
C4_Witness ==
    /\ pc = "done"
    /\ result = "ok"
    /\ FileHeaderValid
    /\ Len(md.directories_) > 0

----------------------------------------------------------------------------
\* the pointer width of the snapshot, from the architecture tags of the format
PointerWidth ==
    IF md.system_info_.present /\ md.system_info_.processor_architecture \in {9, 6, 12, 15}
    THEN 8 ELSE 4

AllZero(data) == \A k \in 1..Len(data) : data[k] = 0

(* C5.  read_pointer(a) returns "no value" exactly when                    *)
(* read_memory(a, pointer_width) fails, and raises no error; when the      *)
(* pointer_width bytes read are all zero it returns the value 0, which is  *)
(* not "no value".                                                         *)
C5_PointerNoValueIffReadFails ==
    last.op = "read_pointer" =>
        /\ last.outcome = "ok"
        /\ ~last.has <=>
              read_memory(md, stream_, last.addr, U64(PointerWidth), fileBytes).outcome
                  = "throw"
        /\ ~last.has <=> last.err \in {"not_mapped", "crosses_boundary"}
        /\ (last.err = "none" /\ AllZero(last.data)) => (last.has /\ last.val = Zero64)
        /\ \A i \in 1..Len(Segments) :
              ( /\ OnlySegmentAt(i, last.addr)
                /\ last.err = "none"
                /\ InFile(Segments[i], last.addr, PointerWidth)
                /\ AllZero(FileData(Segments[i], last.addr, PointerWidth)) )
              => (last.has /\ last.val = Zero64)

\* a pointer read of zero bytes of the file, from a reader whose stream is good
C5_Witness ==
    /\ last.op = "read_pointer"
    /\ last.has
    /\ last.val = Zero64
    /\ Len(last.data) = PointerWidth
    /\ AllZero(last.data)
    /\ ~stream_.fail

(* C6.  On success read_pointer(a) is the little-endian unsigned integer   *)
(* of exactly pointer_width bytes starting at a, the sum of                *)
(* byte[i] * 256^i: limb k of the value is byte[2k] + 256 * byte[2k+1].    *)
(* With pointer width 4 the value is below 2^32 (limbs 2 and 3 are 0), so  *)
(* the bytes at a+4..a+7 have no part in it.  The bytes at a are the file  *)
(* bytes of the one segment that contains a; stated where the file holds   *)
(* them.                                                                   *)
C6_PointerLittleEndian ==
    (last.op = "read_pointer" /\ last.has) =>
        \A i \in 1..Len(Segments) :
            LET S == Segments[i]
                d == FileData(S, last.addr, PointerWidth)
            IN  ( /\ WellFormed(S)
                  /\ OnlySegmentAt(i, last.addr)
                  /\ InFile(S, last.addr, PointerWidth) )
                => /\ last.val[1] = d[1] + 256 * d[2]
                   /\ last.val[2] = d[3] + 256 * d[4]
                   /\ PointerWidth = 8 => /\ last.val[3] = d[5] + 256 * d[6]
                                          /\ last.val[4] = d[7] + 256 * d[8]
                   /\ PointerWidth = 4 => last.val[3] = 0 /\ last.val[4] = 0

(* C7.  get_pointer_size returns 8 exactly when a system-info record is    *)
(* present and its architecture tag is amd64 (9), ia64 (6), arm64 (12) or  *)
(* aarch64 (15); for every other tag and without the record it returns 4.  *)
C7_PointerSize ==
    last.op = "get_pointer_size" =>
        /\ last.psize \in {4, 8}
        /\ last.psize = 8 <=>
              /\ md.system_info_.present
              /\ md.system_info_.processor_architecture \in {9, 6, 12, 15}

\* width 8 for the aarch64 tag
C7_Witness ==
    /\ last.op = "get_pointer_size"
    /\ last.psize = 8
    /\ md.system_info_.present
    /\ md.system_info_.processor_architecture = 15

----------------------------------------------------------------------------
\* the bytes of d before its first zero byte, all of d when none is zero
UpToFirstZero(d) ==
    LET stop == {k \in 1..Len(d) : d[k] = 0}
    IN  IF stop = {} THEN d
        ELSE SubSeq(d, 1, (CHOOSE k \in stop : \A j \in stop : k <= j) - 1)

(* C8.  read_string(a, max_length) reads max_length bytes at a and returns *)
(* the bytes before the first zero byte, all of them when none is zero, so *)
(* memory holding "abc\0def" yields "abc"; when the read fails it returns  *)
(* the empty string and raises no error.  The bytes at a are the file      *)
(* bytes of the one segment that contains a; stated where the whole range  *)
(* lies in the segment and in the file.                                    *)
C8_StringUpToFirstZero ==
    last.op = "read_string" =>
        /\ last.outcome = "ok"
        /\ last.err # "none" => last.str = <<>>
        /\ \A i \in 1..Len(Segments) :
              LET S == Segments[i]
              IN  ( /\ WellFormed(S)
                    /\ OnlySegmentAt(i, last.addr)
                    /\ WideLe(U64AddC(last.addr, last.len), SegEnd(S))
                    /\ InFile(S, last.addr, U64ToNat(last.len)) )
                  => last.str = UpToFirstZero(FileData(S, last.addr, U64ToNat(last.len)))

----------------------------------------------------------------------------
Modules == md.modules_

\* base <= addr < base + size, the end being the record's end_address(): the
\* 64-bit sum base_of_image + size_of_image
InModule(m, addr) ==
    /\ U64Le(m.base_of_image, addr)
    /\ U64Lt(addr, U64Add(m.base_of_image, U64(m.size_of_image)))

(* C9.  find_module_by_address(addr) returns the first module in decode    *)
(* order whose range base <= addr < base + size contains addr, and none    *)
(* when no module does; for a module with no other module covering         *)
(* base + size, find_module_by_address(base + size) returns none.          *)
C9_ModuleByAddress ==
    last.op = "find_module_by_address" =>
        /\ last.idx \in 0..Len(Modules)
        /\ last.idx # 0 =>
              /\ InModule(Modules[last.idx], last.addr)
              /\ \A j \in 1..(last.idx - 1) : ~InModule(Modules[j], last.addr)
        /\ last.idx = 0 => \A j \in 1..Len(Modules) : ~InModule(Modules[j], last.addr)
        /\ \A i \in 1..Len(Modules) :
              ( /\ last.addr = U64Add(Modules[i].base_of_image,
                                      U64(Modules[i].size_of_image))
                /\ \A j \in 1..Len(Modules) : j # i => ~InModule(Modules[j], last.addr) )
              => last.idx = 0

\* the address base + size of the last module of a snapshot, covered by no module
C9_Witness ==
    /\ last.op = "find_module_by_address"
    /\ last.idx = 0
    /\ Len(Modules) >= 2
    /\ last.addr = U64Add(Modules[2].base_of_image, U64(Modules[2].size_of_image))
    /\ InModule(Modules[2], U64Sub(last.addr, U64(1)))

\* name occurs in str as a run of consecutive characters
IsSubstring(name, str) ==
    \E p \in 0..(Len(str) - Len(name)) : \A k \in 1..Len(name) : str[p + k] = name[k]

(* C10.  find_module_by_name(substr) returns the first module in decode    *)
(* order whose resolved name contains substr as a contiguous substring,    *)
(* and none when no module name contains it.                               *)
C10_ModuleByName ==
    last.op = "find_module_by_name" =>
        /\ last.idx \in 0..Len(Modules)
        /\ last.idx # 0 =>
              /\ IsSubstring(last.name, Modules[last.idx].module_name)
              /\ \A j \in 1..(last.idx - 1) : ~IsSubstring(last.name, Modules[j].module_name)
        /\ last.idx = 0 =>
              \A j \in 1..Len(Modules) : ~IsSubstring(last.name, Modules[j].module_name)

\* "bc" is inside "abc" and starts "bca": the first module is returned
C10_Witness ==
    /\ last.op = "find_module_by_name"
    /\ last.name = <<98, 99>>
    /\ last.idx = 1
    /\ Len(Modules) >= 2
    /\ Modules[1].module_name = <<97, 98, 99>>
    /\ Modules[2].module_name = <<98, 99, 97>>

----------------------------------------------------------------------------
\* start <= address < start + size, the end being end_virtual_address(): the
\* 64-bit sum of the two fields
InSegment64(S, address) ==
    /\ U64Le(S.start_virtual_address, address)
    /\ U64Lt(address, U64Add(S.start_virtual_address, S.size))

\* the first segment in decode order that contains the address, 0 for none
FirstSegmentAt(address) ==
    IF \E i \in 1..Len(Segments) : InSegment64(Segments[i], address)
    THEN CHOOSE i \in 1..Len(Segments) :
             /\ InSegment64(Segments[i], address)
             /\ \A j \in 1..(i - 1) : ~InSegment64(Segments[j], address)
    ELSE 0

(* C11.  find_memory_segment(address) returns the first segment in decode  *)
(* order with start <= address < start + size, and none when no segment    *)
(* contains the address.  read_memory uses that same segment: it reports   *)
(* "not mapped" exactly when there is none, judges the crossing against    *)
(* that segment's end, and the bytes a good stream gives are the file      *)
(* bytes of that segment.                                                  *)
C11_FirstContainingSegment ==
    /\ last.op = "find_memory_segment" => last.idx = FirstSegmentAt(last.addr)
    /\ last.op = "read_memory" =>
          LET k == FirstSegmentAt(last.addr)
          IN  /\ k = 0 <=> last.err = "not_mapped"
              /\ last.err # "not_in_segment"
              /\ k # 0 =>
                    /\ last.err = "crosses_boundary" <=>
                          U64Lt(U64Add(Segments[k].start_virtual_address, Segments[k].size),
                                U64Add(last.addr, last.len))
                    /\ (last.outcome = "ok" /\ ~stream_.fail) =>
                          IsFileData(last.data, Segments[k], last.addr)

\* an address two segments contain: the first is returned
C11_Witness ==
    /\ last.op = "find_memory_segment"
    /\ last.idx = 1
    /\ Len(Segments) >= 2
    /\ InSegment64(Segments[2], last.addr)

----------------------------------------------------------------------------
\* what the decoders put into the snapshot
Decoded(m) ==
    <<m.threads_, m.modules_, m.memory_segments_, m.memory_regions_, m.handles_,
      m.system_info_, m.exception_info_, m.misc_info_>>

\* the minidump_file as parse_directories left it
AfterDirectories ==
    [NewMinidumpFile EXCEPT !.header_ = md.header_, !.directories_ = md.directories_]

\* parse_streams run over the directory without the entries of undecoded types
WithoutUnknownEntries ==
    parse_streams_from(AfterDirectories, GoodStream,
                       SelectSeq(md.directories_, IsDecodedKind), 1, fileBytes)

(* C12.  A directory entry whose stream type is none of the eight decoded  *)
(* kinds (3, 4, 6, 7, 9, 12, 15, 16) never makes parse fail: its decode    *)
(* step succeeds and leaves the snapshot as it was, whatever its size and  *)
(* offset fields hold; and parse gives the same outcome and the same       *)
(* decoded snapshot as with those entries absent from the directory.       *)
C12_UnknownStreamsSkipped ==
    /\ ( /\ pc = "streams"
         /\ dirIdx <= Len(md.directories_)
         /\ md.directories_[dirIdx].stream_type \notin {3, 4, 6, 7, 9, 12, 15, 16} )
       => LET r == parse_one_stream(md, file, md.directories_[dirIdx], fileBytes)
          IN  r.ok /\ r.md = md
    /\ (pc = "done" /\ failedAt \notin {"header", "directories"})
       => /\ result = "ok" <=> WithoutUnknownEntries.ok
          /\ result = "ok" => Decoded(md) = Decoded(WithoutUnknownEntries.md)

\* a snapshot parsed from a file whose directory has an entry of type 17 with
\* size and offset far past the end of the file, between decoded entries
C12_Witness ==
    /\ pc = "done"
    /\ result = "ok"
    /\ Len(md.directories_) = 9
    /\ md.directories_[6] = [stream_type |-> 17, data_size |-> FarPos, rva |-> FarPos]
    /\ Len(md.modules_) = 2
    /\ Len(md.handles_) = 1

----------------------------------------------------------------------------
(* C13.  When the header read is short, the signature does not match, or   *)
(* the read of one of the stream_count directory entries is short, parse   *)
(* returns no snapshot, and no stream decoder has run: nothing a decoder   *)
(* writes has left its initial value.                                      *)
C13_HeaderOrDirectoryFailure ==
    ( /\ pc = "done"
      /\ \/ Len(fileBytes) < SizeofHeader
         \/ FileHeader.signature # 1347241037
         \/ ~DirectoryInFile )
    => /\ result = "null"
       /\ failedAt \in {"header", "directories"}
       /\ Decoded(md) = Decoded(NewMinidumpFile)

\* a file with a valid header that ends inside its directory
C13_Witness ==
    /\ pc = "done"
    /\ result = "null"
    /\ failedAt = "directories"
    /\ FileHeaderValid
    /\ Len(fileBytes) >= SizeofHeader
    /\ Len(fileBytes) < FileHeader.stream_directory_rva
                            + SizeofDirectory * FileHeader.number_of_streams

----------------------------------------------------------------------------
(* C14.  After parse has returned a snapshot, no step of a reader          *)
(* (read_memory, read_pointer, read_string, find_module_by_address,        *)
(* find_module_by_name, find_memory_segment, get_pointer_size, succeeding  *)
(* or failing) changes any field of the snapshot, nor the file.            *)
C14_SnapshotImmutable ==
    [][(pc = "done" /\ result = "ok") => (md' = md /\ fileBytes' = fileBytes)]_vars

\* a reader that has had a read fail and now returns bytes of a segment
C14_Witness ==
    /\ readerOpen
    /\ stream_.fail
    /\ last.op = "read_string"
    /\ last.outcome = "ok"
    /\ Len(md.memory_segments_) = 2
    /\ Len(md.modules_) = 2

----------------------------------------------------------------------------
(* C15.  Each reader has its own file handle and seek cursor: a read       *)
(* through one reader, its seek and read steps interleaved in any order    *)
(* with those of a read through another reader of the same snapshot,       *)
(* returns exactly what read_memory returns when it runs alone on that     *)
(* reader (the same bytes or the same error), and leaves the reader's      *)
(* stream in the same state.                                               *)
C15_ReadersDoNotInterfere ==
    \A i \in DOMAIN readers.calls :
        LET c == readers.calls[i]
            alone == read_memory(md, c.s0, c.addr, c.len, fileBytes)
        IN  c.pc = "returned" =>
                /\ c.outcome = alone.outcome
                /\ c.err = alone.err
                /\ c.data = alone.data
                /\ readers.handles[HandleOf(i)] = alone.s

\* a read of "abc\0" has returned after the other reader, now between its
\* read and its seekg back, took steps in the middle of it
C15_Witness ==
    /\ DOMAIN readers.calls = {1, 2}
    /\ readers.calls[1].pc = "returned"
    /\ readers.calls[1].raced
    /\ readers.calls[1].data = <<97, 98, 99, 0>>
    /\ readers.calls[2].pc = "seekback"
    /\ readers.calls[2].raced
    /\ readers.calls[2].addr = U64(24)

----------------------------------------------------------------------------
RECURSIVE SizesBefore(_, _)
\* the sum of the sizes of the encoded segments before the k-th
SizesBefore(segs, k) == IF k = 1 THEN 0 ELSE SizesBefore(segs, k - 1) + segs[k - 1].size

\* the snapshot holds the header, modules and segments d was encoded from, the
\* data of the segments lying at the end of the file f
HoldsEncoded(d, f) ==
    /\ md.header_ = [signature |-> d.sig, version |-> 42899, implementation_version |-> 0,
                     number_of_streams |-> d.nstreams, stream_directory_rva |-> 32,
                     checksum |-> 0, time_date_stamp |-> 1234, flags |-> U64(2)]
    /\ Len(md.modules_) = Len(d.mods)
    /\ \A k \in 1..Len(d.mods) :
          /\ md.modules_[k].base_of_image = d.mods[k].base
          /\ md.modules_[k].size_of_image = d.mods[k].size
          /\ md.modules_[k].checksum = d.mods[k].checksum
          /\ md.modules_[k].time_date_stamp = d.mods[k].timestamp
          /\ md.modules_[k].module_name = d.mods[k].name
    /\ Len(md.memory_segments_) = Len(d.segs)
    /\ \A k \in 1..Len(d.segs) :
          /\ md.memory_segments_[k].start_virtual_address = d.segs[k].start
          /\ md.memory_segments_[k].size = U64(d.segs[k].size)
          /\ md.memory_segments_[k].start_file_address =
                U64(Len(f) - Len(d.data) + SizesBefore(d.segs, k))

(* C16.  Round trip: parsing the encoding of a minimal file (header, one   *)
(* module with a name, one memory segment of 0x1000 bytes) in the binary   *)
(* layout of the format yields a snapshot whose header, segment (start     *)
(* address, size, file offset) and module (base, size, checksum, time      *)
(* stamp, name) fields equal the encoded values; so for the other files    *)
(* compared, which have several modules and segments, none of size 0.      *)
C16_RoundTrip ==
    pc = "done" =>
        \A p \in RoundTripFiles :
            fileBytes = p[2] => (result = "ok" /\ HoldsEncoded(p[1], p[2]))

\* the snapshot of the minimal file
C16_Witness ==
    /\ pc = "done"
    /\ result = "ok"
    /\ Len(fileBytes) > 4096
    /\ Len(md.modules_) = 1
    /\ md.modules_[1].module_name = <<97, 46, 100, 108, 108>>
    /\ md.modules_[1].checksum = 305441741
    /\ md.memory_segments_ = <<memory_segment(<<0, 0, 1, 0>>, U64(4096), U64(214))>>

----------------------------------------------------------------------------
(* C17.  Every decoder that iterates a file-declared count (thread list,   *)
(* module list, memory-segment list, memory-region list, handle list)      *)
(* allocates and reads at most 10,000 elements, whatever count the file    *)
(* declares: no list of the minidump_file ever has more than 10,000        *)
(* elements.                                                               *)
C17_CountsCapped ==
    /\ Len(md.threads_) <= 10000
    /\ Len(md.modules_) <= 10000
    /\ Len(md.memory_segments_) <= 10000
    /\ Len(md.memory_regions_) <= 10000
    /\ Len(md.handles_) <= 10000

----------------------------------------------------------------------------
\* what the file says about the stream of a directory entry

Known == {k \in 1..Len(md.directories_) : IsDecodedKind(md.directories_[k])}

\* bytes of the fixed head of a stream of type t
HeadSize(t) ==
    IF t \in {thread_list_stream, module_list_stream} THEN 4
    ELSE IF t = system_info_stream THEN SizeofSystemInfo
    ELSE IF t = exception_stream THEN SizeofExceptionInfo
    ELSE IF t = misc_info_stream THEN SizeofMiscInfo
    ELSE 16

\* bytes of one element of a list stream of type t
ElementSize(t) ==
    IF t = thread_list_stream THEN SizeofThreadInfo
    ELSE IF t = module_list_stream THEN ModuleReadSize
    ELSE IF t = memory64_list_stream THEN 16
    ELSE IF t = memory_info_list_stream THEN SizeofMemoryInfoEntry
    ELSE IF t = handle_data_stream THEN HandleReadSize
    ELSE 0

HeadShort(dir) == dir.rva + HeadSize(dir.stream_type) > Len(fileBytes)

Capped(n64) == IF U64IsSmall(n64) THEN Min(U64ToNat(n64), 10000) ELSE 10000

\* the number of elements the decoder is to read, from a head that is in the file
ElementsToRead(dir) ==
    LET t == dir.stream_type
    IN  IF t \in {thread_list_stream, module_list_stream} THEN LE32(fileBytes, dir.rva)
        ELSE IF t = memory64_list_stream THEN Capped(LE64(fileBytes, dir.rva))
        ELSE IF t = memory_info_list_stream THEN Capped(LE64(fileBytes, dir.rva + 8))
        ELSE IF t = handle_data_stream THEN LE32(fileBytes, dir.rva + 8)
        ELSE 0

\* the head is in the file, one of the elements is not
ElementShort(dir) ==
    /\ ~HeadShort(dir)
    /\ dir.rva + HeadSize(dir.stream_type)
           + ElementSize(dir.stream_type) * ElementsToRead(dir) > Len(fileBytes)

\* the field of the minidump_file the decoder of stream type t writes
StreamField(m, t) ==
    IF t = thread_list_stream THEN m.threads_
    ELSE IF t = module_list_stream THEN m.modules_
    ELSE IF t = memory64_list_stream THEN m.memory_segments_
    ELSE IF t = memory_info_list_stream THEN m.memory_regions_
    ELSE IF t = handle_data_stream THEN m.handles_
    ELSE IF t = system_info_stream THEN m.system_info_
    ELSE IF t = exception_stream THEN m.exception_info_
    ELSE m.misc_info_

\* no entry up to the k-th has the type of the j-th
FirstOfItsType(j, k) ==
    \A i \in 1..k : md.directories_[i].stream_type # md.directories_[j].stream_type

----------------------------------------------------------------------------
\* the module list the dispatcher is about to decode

AtModuleList ==
    /\ pc = "streams"
    /\ dirIdx <= Len(md.directories_)
    /\ md.directories_[dirIdx].stream_type = module_list_stream
    /\ ~HeadShort(md.directories_[dirIdx])

\* offset of the i-th record (from 0) of that list
RecordOffset(i) == md.directories_[dirIdx].rva + 4 + ModuleReadSize * i

\* the records of that list that are in the file, numbered from 0
RecordsInFile ==
    {i \in 0..(Min(ElementsToRead(md.directories_[dirIdx]),
                   (Len(fileBytes) - RecordOffset(0)) \div ModuleReadSize) - 1) : TRUE}

\* the stream with every byte up to offset p read and no flag set
ReadUpTo(p) == [pos |-> p, fail |-> FALSE, eof |-> FALSE]

(* C19.  After the indirect name of a module record is resolved, the       *)
(* decode cursor is back at the position it had before the indirection, in *)
(* every outcome of the indirection (name read, length out of range, name  *)
(* offset or name bytes past end of file), so every record of the list     *)
(* that is in the file is decoded from its own bytes.                      *)
C19_CursorRestored ==
    AtModuleList =>
        \A i \in RecordsInFile :
            /\ Tellg(ReadName(ReadUpTo(RecordOffset(i + 1)),
                              LE32(fileBytes, RecordOffset(i) + 20), fileBytes).s)
                   = RecordOffset(i + 1)
            /\ parse_one_stream(md, file, md.directories_[dirIdx], fileBytes)
                   .md.modules_[i + 1].base_of_image
                   = LE64(fileBytes, RecordOffset(i))

----------------------------------------------------------------------------
\* what the file holds at a name offset

\* the 4-byte length stored at offset rva is in the file
LengthInFile(rva) == rva + 4 <= Len(fileBytes)

\* the length, and that many bytes after it, are in the file
NameBytesInFile(rva) ==
    /\ LengthInFile(rva)
    /\ rva + 4 + LE32(fileBytes, rva) <= Len(fileBytes)

LengthInRange(rva) == 0 < LE32(fileBytes, rva) /\ LE32(fileBytes, rva) < 2048

\* the k-th UTF-16LE code unit of the name stored at rva
CodeUnit(rva, k) == LE16(fileBytes, rva + 4 + 2 * (k - 1))

IsAscii(u) == 0 < u /\ u < 128

\* the ASCII code units among the whole code units of the name stored at rva
AsciiName(rva) ==
    SelectSeq([k \in 1..(LE32(fileBytes, rva) \div 2) |-> CodeUnit(rva, k)], IsAscii)

(* C20.  Indirect string resolution reads the 4-byte length at the stored  *)
(* offset; the name of a module of the snapshot is the ASCII code units    *)
(* stored after the length when the offset is not 0, 0 < length < 2048 and *)
(* all length bytes are in the file, and empty otherwise.  When the offset *)
(* is 0, or the length is 0 or >= 2048, no name bytes are read: the stream *)
(* comes back unfailed at the position after the record, whether or not    *)
(* the file holds any byte after the length.                               *)
C20_NameResolution ==
    /\ (pc = "done" /\ result = "ok") =>
           \A k \in 1..Len(md.modules_) :
               md.modules_[k].module_name
                   = IF /\ md.modules_[k].module_name_rva # 0
                        /\ NameBytesInFile(md.modules_[k].module_name_rva)
                        /\ LengthInRange(md.modules_[k].module_name_rva)
                     THEN AsciiName(md.modules_[k].module_name_rva)
                     ELSE <<>>
    /\ AtModuleList =>
           \A i \in RecordsInFile :
               (\/ LE32(fileBytes, RecordOffset(i) + 20) = 0
                \/ /\ LengthInFile(LE32(fileBytes, RecordOffset(i) + 20))
                   /\ ~LengthInRange(LE32(fileBytes, RecordOffset(i) + 20)))
               => ReadName(ReadUpTo(RecordOffset(i + 1)),
                           LE32(fileBytes, RecordOffset(i) + 20), fileBytes)
                      = [s |-> ReadUpTo(RecordOffset(i + 1)), name |-> <<>>,
                         set |-> FALSE]

\* a snapshot with a module whose name was read and a module whose stored
\* length is 2048 or more
C20_Witness ==
    /\ pc = "done"
    /\ result = "ok"
    /\ \E j, k \in 1..Len(md.modules_) :
           /\ md.modules_[j].module_name # <<>>
           /\ md.modules_[k].module_name_rva # 0
           /\ LengthInFile(md.modules_[k].module_name_rva)
           /\ LE32(fileBytes, md.modules_[k].module_name_rva) >= 2048
           /\ md.modules_[k].module_name = <<>>

----------------------------------------------------------------------------
\* the memory64 list of the file

Memory64Entries ==
    {k \in Known : md.directories_[k].stream_type = memory64_list_stream}

\* the directory entry of the only memory64 list
Memory64Dir == md.directories_[CHOOSE k \in Memory64Entries : TRUE]

\* the list entries the decoder reads whole: those declared, up to the
\* ceiling, that are in the file
EntriesRead(dir) ==
    Min(ElementsToRead(dir),
        (Len(fileBytes) - dir.rva - HeadSize(dir.stream_type))
            \div ElementSize(dir.stream_type))

\* start and size of the i-th entry (from 1) of the memory64 list
EntryStart(i) == LE64(fileBytes, Memory64Dir.rva + 16 * i)

EntrySize(i) == LE64(fileBytes, Memory64Dir.rva + 16 * i + 8)

RECURSIVE SizeSumBefore(_)
\* base_rva plus the sizes of the entries before the i-th, in 64 bits
SizeSumBefore(i) ==
    IF i = 1 THEN LE64(fileBytes, Memory64Dir.rva + 8)
    ELSE U64Add(SizeSumBefore(i - 1), EntrySize(i - 1))

HasSize(seg) == seg.size # Zero64

(* C21.  In a decoded memory64 list every segment's file offset is the     *)
(* base offset of the list plus the sizes of all list entries before it in *)
(* the stream: the segments are the entries of non-zero size, in order,    *)
(* each at that offset; so each segment starts where the one before it     *)
(* ends, the file ranges are pairwise disjoint, and an entry of size 0     *)
(* moves no later offset.                                                  *)
C21_OffsetsCumulative ==
    (pc = "done" /\ result = "ok" /\ Cardinality(Memory64Entries) = 1) =>
        /\ Segments
               = SelectSeq([i \in 1..EntriesRead(Memory64Dir) |->
                               memory_segment(EntryStart(i), EntrySize(i),
                                              SizeSumBefore(i))],
                           HasSize)
        /\ \A k \in 1..(Len(Segments) - 1) :
               Segments[k + 1].start_file_address
                   = U64Add(Segments[k].start_file_address, Segments[k].size)
        /\ \A j, k \in 1..Len(Segments) :
               j < k =>
                   WideLe(U64AddC(Segments[j].start_file_address, Segments[j].size),
                          [sum |-> Segments[k].start_file_address, carry |-> 0])

\* a list of three entries, the second of size 0, decoded to two segments
C21_Witness ==
    /\ pc = "done"
    /\ result = "ok"
    /\ Cardinality(Memory64Entries) = 1
    /\ EntriesRead(Memory64Dir) = 3
    /\ EntrySize(2) = Zero64
    /\ Len(Segments) = 2
    /\ Segments[2].start_file_address # Segments[1].start_file_address

----------------------------------------------------------------------------
\* the memory-info lists of the file whose head is in the file and whose
\* entry size field is not the size of memory_info_entry

MismatchedEntrySize ==
    {k \in Known :
        /\ md.directories_[k].stream_type = memory_info_list_stream
        /\ ~HeadShort(md.directories_[k])
        /\ LE32(fileBytes, md.directories_[k].rva + 4) # 48}

(* C22.  A memory-info list stream whose entry size field is not 48, the   *)
(* size of the fixed entry layout, is rejected: parse returns no snapshot, *)
(* it fails at that stream at the latest, and no memory region of that     *)
(* stream is added.                                                        *)
C22_EntrySizeMismatchRejected ==
    pc = "done" =>
        \A k \in MismatchedEntrySize :
            /\ result = "null"
            /\ failedAt = "stream"
            /\ dirIdx <= k
            /\ md.memory_regions_ = <<>>

\* the parse failed at a memory-info list with entry size 40 whose one entry
\* is in the file
C22_Witness ==
    /\ pc = "done"
    /\ failedAt = "stream"
    /\ dirIdx \in MismatchedEntrySize
    /\ EntriesRead(md.directories_[dirIdx]) = 1

----------------------------------------------------------------------------
(* C23 as stated.  A directory entry that lies past end of file does not   *)
(* fail the parse at directory-read time: with a valid header, parse does  *)
(* not fail in parse_directories, however many of the declared entries the *)
(* file holds.                                                             *)
C23_MissingEntryNotADirectoryFailure ==
    (pc = "done" /\ FileHeaderValid /\ Len(fileBytes) >= SizeofHeader)
        => failedAt # "directories"

(* C23, amended.  Reading the directory puts no bound on the stream count, *)
(* but every declared entry is read: with a valid header, parse fails in   *)
(* parse_directories exactly when one of the declared entries lies, wholly *)
(* or partly, past end of file, and then no decoder runs.  What it does    *)
(* not look at is where an entry points: an entry of a known type whose    *)
(* stream lies past end of file passes the directory read and fails the    *)
(* parse when its decoder runs, at that entry or at an earlier one.        *)
C23_MissingEntryFailsDirectoryRead ==
    (FileHeaderValid /\ Len(fileBytes) >= SizeofHeader) =>
        /\ pc = "done" =>
               (failedAt = "directories" <=> ~DirectoryInFile)
        /\ (pc = "done" /\ ~DirectoryInFile) =>
               (result = "null" /\ Len(md.directories_) = FileHeader.number_of_streams)
        /\ (pc = "done" /\ DirectoryInFile) =>
               \A k \in Known :
                   HeadShort(md.directories_[k]) =>
                       (result = "null" /\ failedAt = "stream" /\ dirIdx <= k)
        /\ pc # "done" => failedAt = "none"

\* the directory read failed on a header declaring far more entries than the
\* file holds, all of them allocated
C23_Witness ==
    /\ pc = "done"
    /\ failedAt = "directories"
    /\ FileHeaderValid
    /\ Len(md.directories_) = DeclaredCount
    /\ md.directories_[3].stream_type = memory64_list_stream
    /\ md.directories_[DeclaredCount] = ZeroDirectory

----------------------------------------------------------------------------
\* what read_memory(a, L) returns through a reader that has made no call yet
FreshRead(a, L) == read_memory(md, GoodStream, a, L, fileBytes)

(* C24.  The result of read_memory(a, L) through a reader depends only on  *)
(* the snapshot and the file contents, not on the reads issued earlier     *)
(* through the same reader: after any sequence of earlier calls, failed    *)
(* ones and ones that ran into end of file included, it is the result the  *)
(* same call gives on a fresh reader, the same bytes or the same error.    *)
C24_ReadIndependentOfHistory ==
    last.op = "read_memory" =>
        /\ last.outcome = FreshRead(last.addr, last.len).outcome
        /\ last.err = FreshRead(last.addr, last.len).err
        /\ last.data = FreshRead(last.addr, last.len).data

----------------------------------------------------------------------------
\* a + L, or start + size of S, passes 2^64
Wraps(a, L) == U64AddC(a, L).carry = 1

(* C25.  read_memory never reports success for a request whose             *)
(* mathematical end address a + L exceeds the end of the covering segment  *)
(* (the only segment that holds a, its end start + size taken              *)
(* mathematically), also when a + L or start + size passes 2^64; in those  *)
(* wrapping cases the request fails with the crosses-segment-boundary      *)
(* error.                                                                  *)
C25_NoSuccessPastSegmentEnd ==
    last.op = "read_memory" =>
        \A i \in 1..Len(Segments) :
            ( /\ OnlySegmentAt(i, last.addr)
              /\ WideLt(SegEnd(Segments[i]), U64AddC(last.addr, last.len)) )
            => /\ last.outcome = "throw"
               /\ (Wraps(last.addr, last.len) \/ ~WellFormed(Segments[i]))
                      => last.err = "crosses_boundary"

----------------------------------------------------------------------------
(* C26.  read_string(a, max_length) returns the empty string whenever      *)
(* fewer than max_length bytes remain between a and the end of the         *)
(* covering segment (the only segment that holds a), even when a zero      *)
(* terminator lies inside the segment after a: it asks read_memory for     *)
(* exactly max_length bytes, the request fails, and nothing shorter is     *)
(* tried.                                                                  *)
C26_StringNeedsMaxLengthBytes ==
    last.op = "read_string" =>
        \A i \in 1..Len(Segments) :
            ( /\ OnlySegmentAt(i, last.addr)
              /\ WideLt(SegEnd(Segments[i]), U64AddC(last.addr, last.len)) )
            => /\ last.str = <<>>
               /\ last.err # "none"
               /\ last.data = <<>>

----------------------------------------------------------------------------
\* the module lists of the file whose count and records are all in the file
WholeModuleLists ==
    {k \in Known :
        /\ md.directories_[k].stream_type = module_list_stream
        /\ ~HeadShort(md.directories_[k])
        /\ ~ElementShort(md.directories_[k])}

\* the name offset stored in the i-th record (from 1) of the module list at
\* directory entry k
StoredNameRva(k, i) ==
    LE32(fileBytes, md.directories_[k].rva + 4 + ModuleReadSize * (i - 1) + 20)

(* C27.  In a module list, a module record whose name offset points past   *)
(* end of file gets an empty name, every module record after it in the     *)
(* list is still decoded with its own fields, and parse still succeeds: a  *)
(* module list whose count and records are all in the file never makes     *)
(* parse fail, and in the snapshot each module has the base address stored *)
(* in its record and, when its name offset is past end of file, no name.   *)
C27_NamePastEndOfFileTolerated ==
    pc = "done" =>
        \A k \in WholeModuleLists :
            /\ ~(failedAt = "stream" /\ dirIdx = k)
            /\ (result = "ok" /\ Cardinality(WholeModuleLists) = 1) =>
                   \A i \in 1..Len(md.modules_) :
                       /\ md.modules_[i].base_of_image
                              = LE64(fileBytes, md.directories_[k].rva + 4
                                                    + ModuleReadSize * (i - 1))
                       /\ ~LengthInFile(StoredNameRva(k, i))
                              => md.modules_[i].module_name = <<>>

----------------------------------------------------------------------------
\* the memory64 and memory-info lists of the file
MemoryLists ==
    {k \in Known : md.directories_[k].stream_type
                       \in {memory64_list_stream, memory_info_list_stream}}

\* the only list of its type in the directory
OnlyOfItsType(k) ==
    \A j \in 1..Len(md.directories_) :
        j # k => md.directories_[j].stream_type # md.directories_[k].stream_type

\* the decoder of entry k has run and the dispatcher has gone past it
DecodedPast(k) == result = "ok" \/ (failedAt = "stream" /\ dirIdx > k)

\* the decoder of entry k has run
Dispatched(k) == result = "ok" \/ (failedAt = "stream" /\ dirIdx >= k)

\* the entries of the list at k that are whole in the file, of non-zero size
\* for a memory64 list
EntriesKept(k) ==
    {i \in 1..EntriesRead(md.directories_[k]) :
        md.directories_[k].stream_type = memory64_list_stream
            => LE64(fileBytes, md.directories_[k].rva + 16 * i + 8) # Zero64}

----------------------------------------------------------------------------
\* the parse_from_buffer calls, and those whose parse has returned
BufferCalls == fromBuffer.calls

Parsed(i) == BufferCalls[i].pc \in {"remove", "returned", "reader", "read"}

(* C29.  Two parse_from_buffer calls that overlap in time with different   *)
(* buffers each return the snapshot of their own buffer: under every       *)
(* interleaving of their write-temp-file, parse and remove steps, the      *)
(* result of each call is what parsing its own buffer gives, a snapshot    *)
(* decoded from its own bytes, never a failure caused by the other call.   *)
C29_EachCallParsesItsOwnBuffer ==
    \A i \in DOMAIN BufferCalls :
        Parsed(i) =>
            /\ BufferCalls[i].result
                   = IF parse_internal(BufferCalls[i].buffer).ok THEN "ok" ELSE "null"
            /\ BufferCalls[i].md = parse_internal(BufferCalls[i].buffer).md

\* the bytes of the buffer that hold the n bytes at address a of segment S of
\* the snapshot
BufferData(buffer, S, a, n) ==
    [k \in 1..n |->
        buffer[U64ToNat(S.start_file_address)
                   + U64ToNat(U64Sub(a, S.start_virtual_address)) + k]]

(* C30.  A snapshot returned by parse_from_buffer supports the operation   *)
(* sequence a snapshot returned by parse supports: get_reader on it        *)
(* succeeds, and read_memory through that reader returns the buffer's      *)
(* bytes for every in-range request.  Stated for a call that no other      *)
(* call overlaps: the other call has not started.                          *)
C30_BufferSnapshotReadable ==
    \A i \in DOMAIN BufferCalls :
        ( /\ BufferCalls[i].pc \in {"reader", "read"}
          /\ \A j \in DOMAIN BufferCalls : j # i => BufferCalls[j].pc = "start" )
        => /\ BufferCalls[i].reader = "open"
           /\ BufferCalls[i].pc = "read" =>
                  \A k \in 1..Len(BufferCalls[i].md.memory_segments_) :
                      LET S == BufferCalls[i].md.memory_segments_[k]
                      IN  ( /\ InSegment64(S, BufferCalls[i].addr)
                            /\ U64Le(U64Add(BufferCalls[i].addr, BufferCalls[i].len),
                                     end_virtual_address(S))
                            /\ \A j \in 1..(k - 1) :
                                   ~InSegment64(BufferCalls[i].md.memory_segments_[j],
                                                BufferCalls[i].addr) )
                          => /\ BufferCalls[i].outcome = "ok"
                             /\ BufferCalls[i].data
                                    = BufferData(BufferCalls[i].buffer, S,
                                                 BufferCalls[i].addr,
                                                 U64ToNat(BufferCalls[i].len))

====
